---- MODULE Spec2Model ----
(***************************************************************************)
(* Spine-first maze generation (generateSpineFirstMaze and its phases).    *)
(* One call of generateSpineFirstMaze is modelled as a state machine: the  *)
(* grid of cells with their wall / visited / isSpine flags, the spine      *)
(* stack and the turn tracking of Phase 1, the branch bookkeeping of       *)
(* Phase 2 and the scan / DFS stack of Phase 3.  Every Math.random() call  *)
(* is a draw k / RandDen with k in 0 .. RandDen-1.                         *)
(* Further specifications: CallsSpec (successive calls of the generator), *)
(* ValSpec (the move-sequence validator and the outcome its callers, retry *)
(* and rescore-maze, derive from it) and DfsSpec (the DFS generator).      *)
(***************************************************************************)
EXTENDS Integers, Sequences, FiniteSets, TLC

\* ------------------------------------------------------------------ bounds
MaxWidth == 3
MaxHeight == 3
\* grids of at most MaxCells cells
MaxCells == 9
\* Math.random() is modelled as k / RandDen, k \in 0 .. RandDen - 1
RandDen == 4

\* ------------------------------------------------------- program constants
TurnBonus == 10
JitterRange == 5
IterationFactor == 10
DefaultMinSpacing == 5
SubBranchMinLen == 5
SubBranchLenRange == 21
MaxSubBranchDraw == 4

\* Rational config values are numerators over these denominators.
TortDen == 2
ChanceDen == 2

VARIABLES
  width, height, start, goal, config,   \* arguments of generateSpineFirstMaze
  walls, visited, isSpine,              \* the grid's cells
  spine, current, turnCount, lastDirection, iterations,   \* Phase 1
  i, lastBranchIndex,                   \* generateBranches
  branchCells, walkLeft,                \* generateDeadEndBranch: main walk
  maxSubBranches, subBranchesAdded, shuffleLeft,   \* ... its sub-branches
  linCell, linDepth,                    \* generateLinearDeadEnd
  fillPass, scan, stack,                \* fillRemainingAreas / fillAreaDFS
  pc, result, failReason,               \* control point and return value
  phaseLog, branchOf, distBeforeFill,   \* history: phases entered, who carved a cell
  moves, constraint, optimalLength,     \* further arguments of the validator
  position, pathLength, isValid, reachesGoal, path,   \* the replay
  efficiency, constraintsSatisfied,     \* the rest of a ValidationResult
  retryOutcome, rescoreOutcome,         \* the outcome each caller derives
  calls,                                \* history: generator calls entered so far
  carves,                               \* history: the passages Phase 2 carved
  hadPop,                               \* history: cells a successor was popped from
  evaluations, concurrency, mazesFound, \* executeRetry: its context
  task, rows,                           \* ... the limiter's tasks, the database
  completed, successes, failures,       \* ... its counters
  thrown, attempts,                     \* history: calls that threw, task starts
  db, openConns, conns, handle,         \* db/client: its connection, all connections
  flow, table, selection,               \* the command run, the table, the user's choice
  updated, unchanged, rescoreAt,        \* rescore-maze: its counters and position
  difficulties, count, testSet,         \* generate: its options and the test set built
  totalGenerated, difficultyMazes,      \* generate: the total, the local list `mazes`
  difficultyAt, mazeAt,                 \* generate: the positions of its two loops
  hasWindow, savedMazes, uuids,         \* mazeStorage: the browser's localStorage
  syncOut, lastOp                       \* ... syncIdsFromTestSet's result; history

vars == << width, height, start, goal, config, walls, visited, isSpine,
           spine, current, turnCount, lastDirection, iterations,
           i, lastBranchIndex, branchCells, walkLeft,
           maxSubBranches, subBranchesAdded, shuffleLeft, linCell, linDepth,
           fillPass, scan, stack, pc, result, failReason,
           phaseLog, branchOf, distBeforeFill,
           moves, constraint, optimalLength, position, pathLength, isValid,
           reachesGoal, path, efficiency, constraintsSatisfied,
           retryOutcome, rescoreOutcome, calls, carves, hadPop,
           evaluations, concurrency, mazesFound, task, rows,
           completed, successes, failures, thrown, attempts,
           db, openConns, conns, handle,
           flow, table, selection, updated, unchanged, rescoreAt,
           difficulties, count, testSet, totalGenerated, difficultyMazes,
           difficultyAt, mazeAt,
           hasWindow, savedMazes, uuids, syncOut, lastOp >>

args == << width, height, start, goal, config >>

spineVars == << spine, current, turnCount, lastDirection, iterations, hadPop >>

branchVars == << i, lastBranchIndex, branchCells, walkLeft, maxSubBranches,
                 subBranchesAdded, shuffleLeft, linCell, linDepth >>

fillVars == << fillPass, scan, stack >>

valVars == << moves, constraint, optimalLength, position, pathLength, isValid,
              reachesGoal, path, efficiency, constraintsSatisfied,
              retryOutcome, rescoreOutcome >>

retryVars == << evaluations, concurrency, mazesFound, task, rows,
                completed, successes, failures, thrown, attempts >>

dbVars == << db, openConns, conns, handle >>

storageVars == << hasWindow, savedMazes, uuids, syncOut, lastOp >>

\* The state of the command-line tools and of the maze designer's storage.
cliVars == << flow, table, selection, updated, unchanged, rescoreAt >>

generateVars == << difficulties, count, testSet, totalGenerated, difficultyMazes,
                   difficultyAt, mazeAt >>

toolVars == << storageVars, dbVars, cliVars, generateVars >>

\* --------------------------------------------------------------- helpers
Abs(n) == IF n < 0 THEN -n ELSE n

CeilDiv(a, b) == (a + b - 1) \div b

Cells == (0 .. width - 1) \X (0 .. height - 1)

WallNames == {"top", "right", "bottom", "left"}

Range(s) == {s[k] : k \in DOMAIN s}

\* The configurations generation is exercised with (SpineFirstConfig).
\* tortuosity = tortNum / TortDen, branchChance = branchChanceNum / ChanceDen,
\* subBranchChance = subBranchChanceNum / ChanceDen.
\* An optional field is << >> when absent and << v >> when set.
Configs ==
  { [tortNum |-> 2, minTurns |-> << >>, branchChanceNum |-> 1,
     minBranchSpacing |-> << >>, minBranchLength |-> << >>, maxBranchLength |-> 2,
     subBranchChanceNum |-> << 1 >>, fillRemaining |-> TRUE],
    [tortNum |-> 3, minTurns |-> << 2 >>, branchChanceNum |-> 2,
     minBranchSpacing |-> << 1 >>, minBranchLength |-> << 2 >>, maxBranchLength |-> 3,
     subBranchChanceNum |-> << >>, fillRemaining |-> FALSE],
    [tortNum |-> 2, minTurns |-> << 3 >>, branchChanceNum |-> 1,
     minBranchSpacing |-> << 2 >>, minBranchLength |-> << 1 >>, maxBranchLength |-> 3,
     subBranchChanceNum |-> << 2 >>, fillRemaining |-> FALSE],
    [tortNum |-> 3, minTurns |-> << 0 >>, branchChanceNum |-> 2,
     minBranchSpacing |-> << 2 >>, minBranchLength |-> << 1 >>, maxBranchLength |-> 1,
     subBranchChanceNum |-> << 0 >>, fillRemaining |-> TRUE] }

\* opt ?? d
orElse(opt, d) == IF Len(opt) = 0 THEN d ELSE opt[1]

\* The values Math.random() is drawn from, as numerators over RandDen.
Rand == 0 .. RandDen - 1

\* Math.floor(Math.random() * n) for the draw k / RandDen
floorMul(k, n) == (k * n) \div RandDen

\* Math.random() > num / ChanceDen for the draw k / RandDen
exceeds(k, num) == k * ChanceDen > num * RandDen

\* ------------------------------------------------------------- grid model
getDirection(cur, next) ==
  LET dx == next[1] - cur[1]
      dy == next[2] - cur[2]
  IN IF dx = 1 THEN "right"
     ELSE IF dx = -1 THEN "left"
     ELSE IF dy = 1 THEN "down"
     ELSE "up"

manhattanDistance(a, b) == Abs(a[1] - b[1]) + Abs(a[2] - b[2])

\* In the source's order: top, right, bottom, left.
getNeighbors(cell) ==
  LET x == cell[1]
      y == cell[2]
  IN (IF y > 0 THEN << <<x, y - 1>> >> ELSE << >>)
     \o (IF x < width - 1 THEN << <<x + 1, y>> >> ELSE << >>)
     \o (IF y < height - 1 THEN << <<x, y + 1>> >> ELSE << >>)
     \o (IF x > 0 THEN << <<x - 1, y>> >> ELSE << >>)

getUnvisitedNeighbors(vis, cell) ==
  SelectSeq(getNeighbors(cell), LAMBDA n : ~vis[n])

\* The isSpine filter applied to all neighbours, visited or not.
getFreeNeighbors_IgnoreVisited(vis, cell) ==
  SelectSeq(getNeighbors(cell), LAMBDA n : ~isSpine[n])

\* The filter(n => !n.isSpine) applied on top of getUnvisitedNeighbors.
getFreeNeighbors(vis, cell) ==
  SelectSeq(getUnvisitedNeighbors(vis, cell), LAMBDA n : ~isSpine[n])

\* The wall flag of cell a that faces the adjacent cell b.
wallToward(a, b) ==
  CASE getDirection(a, b) = "right" -> "right"
    [] getDirection(a, b) = "left" -> "left"
    [] getDirection(a, b) = "down" -> "bottom"
    [] OTHER -> "top"

\* a and b are joined by an open passage (the wall flag of a facing b is off).
Open(w, a, b) == ~w[a][wallToward(a, b)]

RECURSIVE bfs(_, _, _, _)
bfs(w, frontier, seen, d) ==
  IF goal \in frontier THEN d
  ELSE LET next == {c \in Cells \ seen :
                      \E f \in frontier : c \in Range(getNeighbors(f)) /\ Open(w, f, c)}
       IN IF next = {} THEN 0 - 1 ELSE bfs(w, next, seen \cup next, d + 1)

\* Breadth-first length, in moves, of the shortest open path from start to
\* goal; -1 when the goal cannot be reached.
shortestPath(w) == bfs(w, {start}, {start}, 0)

\* removeWallBetween clearing only the current cell's flag.
removeWallBetween_OneSided(w, cur, next) ==
  LET dx == next[1] - cur[1]
      dy == next[2] - cur[2]
  IN IF dx = 1 THEN [w EXCEPT ![cur]["right"] = FALSE]
     ELSE IF dx = -1 THEN [w EXCEPT ![cur]["left"] = FALSE]
     ELSE IF dy = 1 THEN [w EXCEPT ![cur]["bottom"] = FALSE]
     ELSE IF dy = -1 THEN [w EXCEPT ![cur]["top"] = FALSE]
     ELSE w

\* removeWallBetween without its last case (next above current).
removeWallBetween_NoUp(w, cur, next) ==
  LET dx == next[1] - cur[1]
      dy == next[2] - cur[2]
  IN IF dx = 1 THEN
       [w EXCEPT ![cur]["right"] = FALSE, ![next]["left"] = FALSE]
     ELSE IF dx = -1 THEN
       [w EXCEPT ![cur]["left"] = FALSE, ![next]["right"] = FALSE]
     ELSE IF dy = 1 THEN
       [w EXCEPT ![cur]["bottom"] = FALSE, ![next]["top"] = FALSE]
     ELSE w

removeWallBetween(w, cur, next) ==
  LET dx == next[1] - cur[1]
      dy == next[2] - cur[2]
  IN IF dx = 1 THEN
       [w EXCEPT ![cur]["right"] = FALSE, ![next]["left"] = FALSE]
     ELSE IF dx = -1 THEN
       [w EXCEPT ![cur]["left"] = FALSE, ![next]["right"] = FALSE]
     ELSE IF dy = 1 THEN
       [w EXCEPT ![cur]["bottom"] = FALSE, ![next]["top"] = FALSE]
     ELSE IF dy = -1 THEN
       [w EXCEPT ![cur]["top"] = FALSE, ![next]["bottom"] = FALSE]
     ELSE w

\* Every cell with its four walls up, unvisited and off the spine.
initializeGrid ==
  [c \in Cells |-> [walls |-> [d \in WallNames |-> TRUE],
                    visited |-> FALSE, isSpine |-> FALSE]]

\* ---------------------------------------------------------------- Phase 1
minPathLength == CeilDiv(manhattanDistance(start, goal) * config.tortNum, TortDen)

minTurns == orElse(config.minTurns, 0)

maxIterations == width * height * IterationFactor

\* score of one neighbour, scaled by 10 * RandDen so that it is an integer:
\* +10 for a wanted turn, -0.1 per unit of distance to the goal, + random * 5.
neighborScore(n, k) ==
  LET direction == getDirection(current, n)
      bonus == IF lastDirection # "none" /\ direction # lastDirection
                  /\ turnCount < minTurns
               THEN TurnBonus ELSE 0
  IN bonus * 10 * RandDen - manhattanDistance(n, goal) * RandDen
     + k * JitterRange * 10

\* scoredNeighbors.sort((a, b) => b.score - a.score)[0]: the sort is stable,
\* so of several best neighbours the first in neighbour order is chosen.
chosenIndex(ns, ks) ==
  CHOOSE a \in 1 .. Len(ns) :
    /\ \A b \in 1 .. Len(ns) : neighborScore(ns[b], ks[b]) <= neighborScore(ns[a], ks[a])
    /\ \A b \in 1 .. (a - 1) : neighborScore(ns[b], ks[b]) < neighborScore(ns[a], ks[a])

\* A return that is not taken: the loop goes on to its next iteration.
Fail_GoOn(reason) ==
  /\ pc' = pc
  /\ result' = result
  /\ failReason' = failReason

Fail(reason) ==
  /\ pc' = "failed"
  /\ result' = "null"
  /\ failReason' = reason

\* A backtrack that also puts back the wall it came through.
Backtrack_RestoreWall ==
  /\ visited' = [visited EXCEPT ![current] = FALSE]
  /\ isSpine' = [isSpine EXCEPT ![current] = FALSE]
  /\ spine' = SubSeq(spine, 1, Len(spine) - 1)
  /\ current' = spine[Len(spine) - 1]
  /\ walls' = [walls EXCEPT
                 ![current][wallToward(current, spine[Len(spine) - 1])] = TRUE,
                 ![spine[Len(spine) - 1]][wallToward(spine[Len(spine) - 1], current)] = TRUE]
  /\ UNCHANGED << turnCount, lastDirection >>

\* A backtrack that pops the cell and leaves it marked.
Backtrack_KeepMarks ==
  /\ spine' = SubSeq(spine, 1, Len(spine) - 1)
  /\ current' = spine[Len(spine) - 1]
  /\ UNCHANGED << walls, visited, isSpine, turnCount, lastDirection >>

\* lines 249-255: unmark the current cell, pop it, step back.
Backtrack ==
  /\ visited' = [visited EXCEPT ![current] = FALSE]
  /\ isSpine' = [isSpine EXCEPT ![current] = FALSE]
  /\ spine' = SubSeq(spine, 1, Len(spine) - 1)
  /\ current' = spine[Len(spine) - 1]
  /\ UNCHANGED << walls, turnCount, lastDirection >>

\* lines 287-299: count the turn, carve, mark and push the chosen neighbour.
Advance(next) ==
  LET direction == getDirection(current, next)
  IN /\ turnCount' = IF lastDirection # "none" /\ direction # lastDirection
                     THEN turnCount + 1 ELSE turnCount
     /\ lastDirection' = direction
     /\ walls' = removeWallBetween(walls, current, next)
     /\ visited' = [visited EXCEPT ![next] = TRUE]
     /\ isSpine' = [isSpine EXCEPT ![next] = TRUE]
     /\ spine' = Append(spine, next)
     /\ current' = next

\* A loop that forgets to count its iterations.
countIteration_Never == iterations

\* line 236: iterations++
countIteration == iterations + 1

\* One iteration of the while loop of generateSpine.
SpineStep ==
  /\ pc = "spine"
  /\ current # goal
  /\ iterations' = countIteration
  /\ UNCHANGED << args, calls, valVars, retryVars, toolVars, branchVars, fillVars, phaseLog, branchOf, carves, distBeforeFill >>
  /\ IF countIteration > maxIterations
     THEN /\ Fail("cap")
          /\ UNCHANGED << walls, visited, isSpine, spine, current, turnCount, lastDirection,
                          hadPop >>
     ELSE LET ns == getUnvisitedNeighbors(visited, current)
          IN IF Len(ns) = 0
             THEN IF Len(spine) <= 1
                  THEN /\ Fail("stuck")
                       /\ UNCHANGED << walls, visited, isSpine, spine, current,
                                       turnCount, lastDirection, hadPop >>
                  ELSE /\ Backtrack
                       /\ hadPop' = hadPop \cup {spine[Len(spine) - 1]}
                       /\ UNCHANGED << pc, result, failReason >>
             ELSE /\ \E ks \in [1 .. Len(ns) -> Rand] :
                       Advance(ns[chosenIndex(ns, ks)])
                  /\ UNCHANGED << pc, result, failReason, hadPop >>

\* lines 302-311: the walk reached the goal; accept or reject the spine.
spineTooShort == Len(spine) < minPathLength

spineLacksTurns == minTurns > 0 /\ turnCount < minTurns

\* A generateSpineFirstMaze that goes on to Phase 2 whatever Phase 1 returned.
afterSpine_IgnoreFailure(accepted) == "branches"

\* generateSpineFirstMaze, lines 568-574: what follows Phase 1.
afterSpine(accepted) == IF accepted THEN "branches" ELSE "failed"

\* generateSpineFirstMaze, lines 576-582: what follows Phase 2.
afterBranches == IF config.fillRemaining THEN "fill" ELSE "done"

SpineFinish ==
  /\ pc = "spine"
  /\ current = goal
  /\ LET to == afterSpine(~spineTooShort /\ ~spineLacksTurns)
     IN /\ pc' = to
        /\ result' = IF to = "failed" THEN "null" ELSE result
        /\ failReason' = IF spineTooShort THEN "short"
                         ELSE IF spineLacksTurns THEN "turns" ELSE failReason
        /\ phaseLog' = IF to = "failed" THEN phaseLog ELSE Append(phaseLog, 2)
  /\ i' = 1
  /\ lastBranchIndex' = 0 - orElse(config.minBranchSpacing, DefaultMinSpacing)
  \* generateSpine's locals end with a successful call; a failed call's are
  \* kept as they were at the return.
  /\ IF afterSpine(~spineTooShort /\ ~spineLacksTurns) = "failed"
     THEN UNCHANGED << turnCount, lastDirection, iterations, hadPop >>
     ELSE turnCount' = 0 /\ lastDirection' = "none" /\ iterations' = 0 /\ hadPop' = {}
  /\ UNCHANGED << args, calls, valVars, retryVars, toolVars, walls, visited, isSpine, spine, current, branchCells, walkLeft,
                  maxSubBranches, subBranchesAdded, shuffleLeft, linCell, linDepth,
                  fillVars, branchOf, carves, distBeforeFill >>

\* ---------------------------------------------------------------- Phase 2
minSpacing == orElse(config.minBranchSpacing, DefaultMinSpacing)

minBranchLen == orElse(config.minBranchLength, 1)

maxBranchLen == config.maxBranchLength

subBranchChance == orElse(config.subBranchChanceNum, 0)

\* The spine read one cell too early: index 1 is the start cell.
spineAt_OffByOne(k) == spine[k]

\* spine[i] of the source (0-based)
spineAt(k) == spine[k + 1]

\* A loop that never skips a spine cell for spacing.
tooCloseToLastBranch_Never == FALSE

\* lines 420-422: i - lastBranchIndex < minSpacing
tooCloseToLastBranch == i - lastBranchIndex < minSpacing

\* removeWallBetween(from, to); to.visited = true -- a Phase-2 carve, which
\* also notes the spine index of the branch the cell now belongs to, and the
\* passage with its level: 1 for a branch's first cell and main walk
\* (generateBranches, the loop of generateDeadEndBranch), 2 for a sub-branch.
CarveBranchCell(from, to) ==
  /\ walls' = removeWallBetween(walls, from, to)
  /\ visited' = [visited EXCEPT ![to] = TRUE]
  /\ branchOf' = [branchOf EXCEPT ![to] = i]
  /\ carves' = carves \cup {[from |-> from, to |-> to,
                              level |-> IF pc \in {"branches", "walk"} THEN 1 ELSE 2]}

\* generateDeadEndBranch returned: lines 453-455 and the loop increment.
BranchReturns ==
  /\ lastBranchIndex' = i
  /\ i' = i + 1
  /\ pc' = "branches"

\* One iteration of the for loop of generateBranches (or its exit).
BranchLoopStep ==
  /\ pc = "branches"
  /\ UNCHANGED << args, calls, valVars, retryVars, toolVars, isSpine, spineVars, maxSubBranches, subBranchesAdded,
                  shuffleLeft, linCell, linDepth, fillVars, failReason >>
  /\ IF ~ (i < Len(spine) - 1)
     THEN /\ pc' = afterBranches
          /\ result' = IF afterBranches = "done" THEN "grid" ELSE result
          /\ phaseLog' = IF afterBranches = "done" THEN phaseLog ELSE Append(phaseLog, 3)
          /\ distBeforeFill' = shortestPath(walls)
          /\ UNCHANGED << walls, visited, branchOf, carves, i, lastBranchIndex, branchCells, walkLeft >>
     ELSE /\ UNCHANGED << result, phaseLog, distBeforeFill >>
          /\ IF tooCloseToLastBranch
             THEN /\ i' = i + 1
                  /\ UNCHANGED << walls, visited, branchOf, carves, lastBranchIndex, branchCells,
                                  walkLeft, pc >>
             ELSE \E k1 \in Rand, k2 \in Rand, k3 \in Rand :
                    LET branchStarts == getFreeNeighbors(visited, spineAt(i))
                    IN IF exceeds(k1, config.branchChanceNum) \/ Len(branchStarts) = 0
                       THEN /\ i' = i + 1
                            /\ UNCHANGED << walls, visited, branchOf, carves, lastBranchIndex,
                                            branchCells, walkLeft, pc >>
                       ELSE LET branchStart == branchStarts[floorMul(k2, Len(branchStarts)) + 1]
                                branchLength == minBranchLen
                                   + floorMul(k3, maxBranchLen - minBranchLen + 1)
                            IN /\ CarveBranchCell(spineAt(i), branchStart)
                               /\ IF branchLength - 1 <= 0
                                  THEN /\ BranchReturns
                                       /\ UNCHANGED << branchCells, walkLeft >>
                                  ELSE /\ branchCells' = << branchStart >>
                                       /\ walkLeft' = branchLength - 1
                                       /\ pc' = "walk"
                                       /\ UNCHANGED << i, lastBranchIndex >>

\* One iteration of the main-walk loop of generateDeadEndBranch (lines
\* 359-368), or its exit and the set-up of the sub-branch loop (372-378).
BranchWalkStep ==
  /\ pc = "walk"
  /\ UNCHANGED << args, calls, valVars, retryVars, toolVars, isSpine, spineVars, linCell, linDepth, fillVars, result,
                  failReason, phaseLog, distBeforeFill >>
  /\ LET cur == branchCells[Len(branchCells)]
         neighbors == getFreeNeighbors(visited, cur)
     IN IF walkLeft > 0 /\ Len(neighbors) > 0
        THEN \E k \in Rand :
               LET next == neighbors[floorMul(k, Len(neighbors)) + 1]
               IN /\ CarveBranchCell(cur, next)
                  /\ branchCells' = Append(branchCells, next)
                  /\ walkLeft' = walkLeft - 1
                  /\ UNCHANGED << i, lastBranchIndex, maxSubBranches, subBranchesAdded,
                                  shuffleLeft, pc >>
        ELSE /\ UNCHANGED << walls, visited, branchOf, carves, branchCells, walkLeft >>
             /\ IF subBranchChance > 0 /\ Len(branchCells) > 1
                THEN /\ \E k \in Rand : maxSubBranches' = floorMul(k, MaxSubBranchDraw)
                     /\ subBranchesAdded' = 0
                     /\ shuffleLeft' = {branchCells[n] : n \in 2 .. Len(branchCells)}
                     /\ pc' = "sub"
                     /\ UNCHANGED << i, lastBranchIndex >>
                ELSE /\ BranchReturns
                     /\ UNCHANGED << maxSubBranches, subBranchesAdded, shuffleLeft >>

\* One iteration of the loop over shuffledCells (lines 380-398).  The random
\* comparator of the shuffle can yield any order, so the next cell is any
\* cell not yet taken.
SubBranchStep ==
  /\ pc = "sub"
  /\ UNCHANGED << args, calls, valVars, retryVars, toolVars, isSpine, spineVars, branchCells, walkLeft, maxSubBranches,
                  fillVars, result, failReason, phaseLog, distBeforeFill >>
  /\ IF shuffleLeft = {}
     THEN /\ BranchReturns
          /\ UNCHANGED << walls, visited, branchOf, carves, subBranchesAdded, shuffleLeft,
                          linCell, linDepth >>
     ELSE \E cell \in shuffleLeft, k1 \in Rand, k2 \in Rand, k3 \in Rand :
            LET subBranchNeighbors == getFreeNeighbors(visited, cell)
            IN IF subBranchesAdded >= maxSubBranches
               THEN /\ BranchReturns
                    /\ UNCHANGED << walls, visited, branchOf, carves, subBranchesAdded,
                                    shuffleLeft, linCell, linDepth >>
               ELSE /\ shuffleLeft' = shuffleLeft \ {cell}
                    /\ IF exceeds(k1, subBranchChance) \/ Len(subBranchNeighbors) = 0
                       THEN UNCHANGED << walls, visited, branchOf, carves, subBranchesAdded,
                                         linCell, linDepth, i, lastBranchIndex, pc >>
                       ELSE LET subStart ==
                                  subBranchNeighbors[floorMul(k2, Len(subBranchNeighbors)) + 1]
                                subBranchLength ==
                                  SubBranchMinLen + floorMul(k3, SubBranchLenRange)
                            IN /\ CarveBranchCell(cell, subStart)
                               /\ linCell' = subStart
                               /\ linDepth' = subBranchLength - 1
                               /\ pc' = "linear"
                               /\ UNCHANGED << subBranchesAdded, i, lastBranchIndex >>

\* A recursion that goes on from the cell it started at.
linearNext_Same(cell, next) == cell

\* line 334: generateLinearDeadEnd(grid, next, ...) -- the cell the linear
\* dead end is continued from.
linearNext(cell, next) == next

\* One call of generateLinearDeadEnd (lines 325-334); when it returns, the
\* caller counts the sub-branch (line 397).
LinearStep ==
  /\ pc = "linear"
  /\ UNCHANGED << args, calls, valVars, retryVars, toolVars, isSpine, spineVars, i, lastBranchIndex, branchCells, walkLeft,
                  maxSubBranches, shuffleLeft, fillVars, result, failReason, phaseLog,
                  distBeforeFill >>
  /\ LET neighbors == getFreeNeighbors(visited, linCell)
     IN IF linDepth <= 0 \/ Len(neighbors) = 0
        THEN /\ subBranchesAdded' = subBranchesAdded + 1
             /\ pc' = "sub"
             /\ UNCHANGED << walls, visited, branchOf, carves, linCell, linDepth >>
        ELSE \E k \in Rand :
               LET next == neighbors[floorMul(k, Len(neighbors)) + 1]
               IN /\ CarveBranchCell(linCell, next)
                  /\ linCell' = linearNext(linCell, next)
                  /\ linDepth' = linDepth - 1
                  /\ UNCHANGED << subBranchesAdded, pc >>

\* ---------------------------------------------------------------- Phase 3
\* grid[y][x] for the scan position y * width + x
cellAt(n) == << n % width, n \div width >>

\* A fill that never finds a visited neighbour to connect a cell to.
visitedNeighborsOf_None(cell) == << >>

visitedNeighborsOf(cell) == SelectSeq(getNeighbors(cell), LAMBDA n : visited[n])

\* One iteration of the nested x / y loops of fillRemainingAreas, of the
\* first pass (lines 466-484) or the second (488-504), or the end of a pass.
FillScanStep ==
  /\ pc = "fill"
  /\ UNCHANGED << args, calls, valVars, retryVars, toolVars, isSpine, spineVars, branchVars, failReason, phaseLog, branchOf, carves,
                  distBeforeFill >>
  /\ IF scan = width * height
     THEN /\ IF fillPass = 1
             THEN /\ fillPass' = 2
                  /\ scan' = 0
                  /\ UNCHANGED << pc, result >>
             ELSE /\ pc' = "done"
                  /\ result' = "grid"
                  /\ UNCHANGED << fillPass, scan >>
          /\ UNCHANGED << walls, visited, stack >>
     ELSE LET cell == cellAt(scan)
              visitedNeighbors == visitedNeighborsOf(cell)
          IN /\ UNCHANGED << fillPass, result >>
             /\ IF visited[cell]
                THEN /\ scan' = scan + 1
                     /\ UNCHANGED << walls, visited, stack, pc >>
                ELSE IF fillPass = 1
                THEN IF Len(visitedNeighbors) > 0
                     THEN \E k \in Rand :
                            LET connector ==
                                  visitedNeighbors[floorMul(k, Len(visitedNeighbors)) + 1]
                            IN /\ walls' = removeWallBetween(walls, connector, cell)
                               /\ visited' = [visited EXCEPT ![cell] = TRUE]
                               /\ stack' = << cell >>
                               /\ pc' = "fillDFS"
                               /\ UNCHANGED scan
                     ELSE /\ scan' = scan + 1
                          /\ UNCHANGED << walls, visited, stack, pc >>
                ELSE /\ visited' = [visited EXCEPT ![cell] = TRUE]
                     /\ stack' = << cell >>
                     /\ pc' = "fillDFS"
                     /\ UNCHANGED << walls, scan >>

\* One iteration of the while loop of fillAreaDFS (lines 518-531), or its
\* return to the pass that called it (second pass: lines 497-502).
FillDFSStep ==
  /\ pc = "fillDFS"
  /\ UNCHANGED << args, calls, valVars, retryVars, toolVars, isSpine, spineVars, branchVars, fillPass, result, failReason,
                  phaseLog, branchOf, carves, distBeforeFill >>
  /\ IF Len(stack) > 0
     THEN LET cur == stack[Len(stack)]
              unvisitedNeighbors == getUnvisitedNeighbors(visited, cur)
          IN /\ UNCHANGED << scan, pc >>
             /\ IF Len(unvisitedNeighbors) = 0
                THEN /\ stack' = SubSeq(stack, 1, Len(stack) - 1)
                     /\ UNCHANGED << walls, visited >>
                ELSE \E k \in Rand :
                       LET next == unvisitedNeighbors[floorMul(k, Len(unvisitedNeighbors)) + 1]
                       IN /\ walls' = removeWallBetween(walls, cur, next)
                          /\ visited' = [visited EXCEPT ![next] = TRUE]
                          /\ stack' = Append(stack, next)
     ELSE LET cell == cellAt(scan)
              visitedNeighbors == visitedNeighborsOf(cell)
          IN /\ scan' = scan + 1
             /\ pc' = "fill"
             /\ UNCHANGED << visited, stack >>
             /\ IF fillPass = 2 /\ Len(visitedNeighbors) > 0
                THEN \E k \in Rand :
                       walls' = removeWallBetween(walls,
                                  visitedNeighbors[floorMul(k, Len(visitedNeighbors)) + 1], cell)
                ELSE UNCHANGED walls

\* The maze designer's storage is not in use.
noStorage ==
  /\ hasWindow = TRUE
  /\ savedMazes = << >>
  /\ uuids = 0
  /\ syncOut = [updated |-> 0, matched |-> << >>, unmatched |-> << >>]
  /\ lastOp = [op |-> "none", tick |-> 0]

\* No database connection was opened: the module variable db is null.
noDatabase ==
  /\ db = 0
  /\ openConns = {}
  /\ conns = 0
  /\ handle = 0

\* No command of the CLI is running.
noCli ==
  /\ flow = "none"
  /\ table = << >>
  /\ selection = << >>
  /\ updated = 0
  /\ unchanged = 0
  /\ rescoreAt = 0

\* The generate command is not running.
noGenerate ==
  /\ difficulties = << >>
  /\ count = 0
  /\ testSet = << >>
  /\ totalGenerated = 0
  /\ difficultyMazes = << >>
  /\ difficultyAt = 0
  /\ mazeAt = 0

\* No command-line tool and no designer is at work.
noTools ==
  /\ noStorage
  /\ noDatabase
  /\ noCli
  /\ noGenerate

\* No retry run is under way.
noRetry ==
  /\ evaluations = << >>
  /\ concurrency = 1
  /\ mazesFound = {}
  /\ task = << >>
  /\ rows = << >>
  /\ completed = 0
  /\ successes = 0
  /\ failures = 0
  /\ thrown = {}
  /\ attempts = << >>

\* ------------------------------------------------------------------- spec
\* No move list is being validated.
noValidation ==
  /\ moves = << >>
  /\ constraint = [requirementType |-> "null", requiredTiles |-> {},
                   requiredSolutionSubsequences |-> << >>]
  /\ optimalLength = 0
  /\ position = << 0, 0 >>
  /\ pathLength = 0
  /\ isValid = TRUE
  /\ reachesGoal = FALSE
  /\ path = << >>
  /\ efficiency = << >>
  /\ constraintsSatisfied = "null"
  /\ retryOutcome = "none"
  /\ rescoreOutcome = "none"

\* A call of generateSpineFirstMaze at the head of Phase 1's loop, its
\* arguments bound: the grid initialised (line 565) and the start cell marked
\* and pushed (226-232).
callEntry ==
  /\ walls = [c \in Cells |-> initializeGrid[c].walls]
  /\ visited = [c \in Cells |-> initializeGrid[c].visited \/ c = start]
  /\ isSpine = [c \in Cells |-> initializeGrid[c].isSpine \/ c = start]
  /\ spine = << start >>
  /\ current = start
  /\ turnCount = 0
  /\ lastDirection = "none"
  /\ iterations = 0
  /\ hadPop = {}
  /\ i = 0
  /\ lastBranchIndex = 0
  /\ branchCells = << >>
  /\ walkLeft = 0
  /\ maxSubBranches = 0
  /\ subBranchesAdded = 0
  /\ shuffleLeft = {}
  /\ linCell = start
  /\ linDepth = 0
  /\ fillPass = 1
  /\ scan = 0
  /\ stack = << >>
  /\ pc = "spine"
  /\ result = "none"
  /\ failReason = "none"
  /\ phaseLog = << 1 >>
  /\ branchOf = [c \in Cells |-> 0]
  /\ distBeforeFill = 0
  /\ calls = 1
  /\ carves = {}
  /\ noValidation
  /\ noRetry
  /\ noTools

\* The calls explored: every grid up to MaxWidth x MaxHeight of at most
\* MaxCells cells, a start in the first two columns of the top row, any goal.
Init ==
  /\ width \in 1 .. MaxWidth
  /\ height \in 1 .. MaxHeight
  /\ width * height <= MaxCells
  /\ start \in {c \in Cells : c[2] = 0 /\ c[1] <= 1}
  /\ goal \in Cells
  /\ config \in Configs
  /\ callEntry

Next ==
  \/ SpineStep
  \/ SpineFinish
  \/ BranchLoopStep
  \/ BranchWalkStep
  \/ SubBranchStep
  \/ LinearStep
  \/ FillScanStep
  \/ FillDFSStep

Spec == Init /\ [][Next]_vars

\* ------------------------------------------------- calls on a wider grid
\* Calls on a grid wide enough for a sub-branch cell to have a free cell on
\* either side: one start, one goal, branches always taken.
WideWidth == 4

WideHeight == 3

WideConfigs ==
  { [tortNum |-> 0, minTurns |-> << 0 >>, branchChanceNum |-> 2,
     minBranchSpacing |-> << 1 >>, minBranchLength |-> << 2 >>, maxBranchLength |-> 2,
     subBranchChanceNum |-> << 2 >>, fillRemaining |-> TRUE] }

WideInit ==
  /\ width = WideWidth
  /\ height = WideHeight
  /\ start = << 0, 0 >>
  /\ goal = << 2, 0 >>
  /\ config \in WideConfigs
  /\ callEntry

WideSpec == WideInit /\ [][Next]_vars

\* ============================================== move-sequence validator
\* validateSolutionWithConstraints(grid, start, goal, shortestPath, moves,
\* constraint), as retry and rescore-maze call it.  The grid is `walls`, with
\* `width`, `height`, `start` and `goal` as for the generator.
MaxMoves == 3

ValMaxCells == 4

MoveActions == {"UP", "DOWN", "LEFT", "RIGHT"}

\* Everything of a generator call except its grid and control point.
genData == << args, calls, visited, isSpine, spineVars, branchVars, fillVars, result,
              failReason, phaseLog, branchOf, carves, distBeforeFill >>

\* No generator call is under way.
noGeneration ==
  /\ calls = 0
  /\ carves = {}
  /\ config = CHOOSE c \in Configs : c.tortNum = 2 /\ c.fillRemaining
  /\ isSpine = [c \in Cells |-> FALSE]
  /\ spine = << >>
  /\ turnCount = 0
  /\ lastDirection = "none"
  /\ iterations = 0
  /\ hadPop = {}
  /\ i = 0
  /\ lastBranchIndex = 0
  /\ branchCells = << >>
  /\ walkLeft = 0
  /\ maxSubBranches = 0
  /\ subBranchesAdded = 0
  /\ shuffleLeft = {}
  /\ linCell = << 0, 0 >>
  /\ linDepth = 0
  /\ fillPass = 1
  /\ scan = 0
  /\ result = "none"
  /\ failReason = "none"
  /\ phaseLog = << >>
  /\ branchOf = [c \in Cells |-> 0]
  /\ distBeforeFill = 0

\* The position next to p across its wall d.
wallNeighbor(p, d) ==
  CASE d = "top" -> << p[1], p[2] - 1 >>
    [] d = "bottom" -> << p[1], p[2] + 1 >>
    [] d = "left" -> << p[1] - 1, p[2] >>
    [] OTHER -> << p[1] + 1, p[2] >>

\* The wall of the current cell a move crosses.
moveWall(m) ==
  CASE m = "UP" -> "top"
    [] m = "DOWN" -> "bottom"
    [] m = "LEFT" -> "left"
    [] OTHER -> "right"

moveTarget(p, m) == wallNeighbor(p, moveWall(m))

inBounds(p) == p[1] >= 0 /\ p[1] < width /\ p[2] >= 0 /\ p[2] < height

\* A move is legal when the wall of the current cell in its direction is
\* open and it stays inside the grid.
canMove(w, p, m) == inBounds(moveTarget(p, m)) /\ ~w[p][moveWall(m)]

\* A validator that counts the illegal move into the path length.
haltOnIllegalMove_Counted ==
  /\ isValid' = FALSE
  /\ pathLength' = pathLength + 1
  /\ pc' = "constraints"
  /\ UNCHANGED << position, reachesGoal, path >>

\* The first illegal move ends the replay: isValid = false, nothing else moves.
haltOnIllegalMove ==
  /\ isValid' = FALSE
  /\ pc' = "constraints"
  /\ UNCHANGED << position, pathLength, reachesGoal, path >>

\* A validator that replays the whole list, goal or not.
atGoal_Never(p) == FALSE

\* The replay stops successfully as soon as the position is the goal.
atGoal(p) == p = goal

\* One move of the replay.
ReplayMove ==
  /\ pc = "replay"
  /\ pathLength < Len(moves)
  /\ LET m == moves[pathLength + 1]
         to == moveTarget(position, m)
     IN IF ~canMove(walls, position, m)
        THEN haltOnIllegalMove
        ELSE /\ position' = to
             /\ pathLength' = pathLength + 1
             /\ path' = Append(path, [move |-> m, position |-> to])
             /\ reachesGoal' = atGoal(to)
             /\ pc' = IF atGoal(to) THEN "constraints" ELSE "replay"
             /\ UNCHANGED isValid
  /\ UNCHANGED << genData, retryVars, toolVars, walls, current, stack, moves, constraint, optimalLength,
                  efficiency, constraintsSatisfied, retryOutcome, rescoreOutcome >>

\* The move list is used up before the goal was reached.
ReplayExhausted ==
  /\ pc = "replay"
  /\ pathLength = Len(moves)
  /\ pc' = "constraints"
  /\ UNCHANGED << genData, retryVars, toolVars, walls, current, stack, moves, constraint, optimalLength,
                  position, pathLength, isValid, reachesGoal, path,
                  efficiency, constraintsSatisfied, retryOutcome, rescoreOutcome >>

\* pathLength / optimalPathLength, the ratio upside down.
efficiencyOf_Inverted(reaches, optimal, len) ==
  IF reaches THEN << len, optimal >> ELSE << >>

\* efficiency = optimalPathLength / pathLength when the goal is reached, as
\* the fraction << numerator, denominator >>; << >> (null) otherwise.
efficiencyOf(reaches, optimal, len) ==
  IF reaches THEN << optimal, len >> ELSE << >>

\* The positions visited in order: the start, then where each move led.
visitedPositions(pth) == << start >> \o [k \in DOMAIN pth |-> pth[k].position]

\* Required tiles, satisfied as soon as one of them was visited.
tilesSatisfied_Any(tiles, pth) ==
  \E t \in tiles : \E k \in DOMAIN visitedPositions(pth) : visitedPositions(pth)[k] = t

\* Required tiles: every required position appears among the visited ones.
tilesSatisfied(tiles, pth) ==
  \A t \in tiles : \E k \in DOMAIN visitedPositions(pth) : visitedPositions(pth)[k] = t

\* One scan of the realized path for the pairs of sub, in order: a is the
\* next pair of sub looked for, b the next pair of the path looked at.
RECURSIVE matchFrom(_, _, _, _)
matchFrom(sub, pth, a, b) ==
  IF a > Len(sub) THEN TRUE
  ELSE IF b > Len(pth) THEN FALSE
  ELSE IF pth[b] = sub[a] THEN matchFrom(sub, pth, a + 1, b + 1)
  ELSE matchFrom(sub, pth, a, b + 1)

\* A match that asks for each pair somewhere in the path, in any order.
containsSubsequence_AnyOrder(sub, pth) ==
  \A a \in DOMAIN sub : \E b \in DOMAIN pth : pth[b] = sub[a]

containsSubsequence(sub, pth) == matchFrom(sub, pth, 1, 1)

subsequencesSatisfied(subs, pth) ==
  \A k \in DOMAIN subs : containsSubsequence(subs[k], pth)

\* constraintsSatisfied: "null" without a constraint, else "true" / "false".
evaluateConstraints(c, pth) ==
  IF c.requirementType = "REQUIRED_TILES"
  THEN IF tilesSatisfied(c.requiredTiles, pth) THEN "true" ELSE "false"
  ELSE IF c.requirementType = "REQUIRED_SUBSEQUENCE"
  THEN IF subsequencesSatisfied(c.requiredSolutionSubsequences, pth)
       THEN "true" ELSE "false"
  ELSE "null"

\* The replay is over: efficiency and the constraint are evaluated over the
\* realized path and the ValidationResult is returned.
FinishValidation ==
  /\ pc = "constraints"
  /\ efficiency' = efficiencyOf(reachesGoal, optimalLength, pathLength)
  /\ constraintsSatisfied' = evaluateConstraints(constraint, path)
  /\ pc' = "validated"
  /\ UNCHANGED << genData, retryVars, toolVars, walls, current, stack, moves, constraint, optimalLength,
                  position, pathLength, isValid, reachesGoal, path,
                  retryOutcome, rescoreOutcome >>

\* The ValidationResult the callers read.
validation ==
  [isValid |-> isValid, reachesGoal |-> reachesGoal, pathLength |-> pathLength,
   efficiency |-> efficiency, constraintsSatisfied |-> constraintsSatisfied,
   finalPosition |-> position]

\* retry.ts, lines 289-301
retryOutcomeOf(v) ==
  IF ~v.isValid THEN "invalid_move"
  ELSE IF v.reachesGoal
  THEN IF v.constraintsSatisfied = "false" THEN "constraint_violated" ELSE "success"
  ELSE "failure"

\* A rescore that looks at the constraint before looking at the goal.
rescoreOutcomeOf_ConstraintFirst(v) ==
  IF ~v.isValid THEN "invalid_move"
  ELSE IF v.constraintsSatisfied = "false" THEN "constraint_violated"
  ELSE IF v.reachesGoal THEN "success"
  ELSE "failure"

\* rescore-maze, lines 149-161
rescoreOutcomeOf(v) ==
  IF ~v.isValid THEN "invalid_move"
  ELSE IF v.reachesGoal
  THEN IF v.constraintsSatisfied = "false" THEN "constraint_violated" ELSE "success"
  ELSE "failure"

\* retry: the outcome of the evaluation, from the validation of the moves.
RetryDeriveOutcome ==
  /\ pc = "validated"
  /\ retryOutcome = "none"
  /\ retryOutcome' = retryOutcomeOf(validation)
  /\ UNCHANGED << genData, retryVars, toolVars, walls, current, stack, pc, moves, constraint, optimalLength,
                  position, pathLength, isValid, reachesGoal, path,
                  efficiency, constraintsSatisfied, rescoreOutcome >>

\* rescore-maze: an evaluation without moves is skipped (lines 127-131), any
\* other gets its new outcome from the validation.
RescoreDeriveOutcome ==
  /\ pc = "validated"
  /\ rescoreOutcome = "none"
  /\ rescoreOutcome' = IF Len(moves) = 0 THEN "skipped"
                       ELSE rescoreOutcomeOf(validation)
  /\ UNCHANGED << genData, retryVars, toolVars, walls, current, stack, pc, moves, constraint, optimalLength,
                  position, pathLength, isValid, reachesGoal, path,
                  efficiency, constraintsSatisfied, retryOutcome >>

\* The grid with exactly the passages in openEdges open; the walls on the
\* border are all closed or, for openBorder, all open.
gridOf(openEdges, openBorder) ==
  [c \in Cells |->
     [d \in WallNames |->
        IF inBounds(wallNeighbor(c, d))
        THEN {c, wallNeighbor(c, d)} \notin openEdges
        ELSE ~openBorder]]

interiorEdges == {{a, b} : a \in Cells, b \in Cells} \cap
                 {{a, wallNeighbor(a, d)} : a \in Cells, d \in WallNames}

moveLists == UNION {[1 .. n -> MoveActions] : n \in 0 .. MaxMoves}

pair(m, x, y) == [move |-> m, position |-> << x, y >>]

\* The constraints a maze is validated with: none, required tiles, required
\* subsequences (one in path order, one against it, one list of two).
Constraints ==
  { [requirementType |-> "null", requiredTiles |-> {},
     requiredSolutionSubsequences |-> << >>],
    [requirementType |-> "REQUIRED_TILES", requiredTiles |-> {<< 1, 0 >>},
     requiredSolutionSubsequences |-> << >>],
    [requirementType |-> "REQUIRED_TILES", requiredTiles |-> {<< 0, 1 >>, << 1, 1 >>},
     requiredSolutionSubsequences |-> << >>],
    [requirementType |-> "REQUIRED_SUBSEQUENCE", requiredTiles |-> {},
     requiredSolutionSubsequences |->
       << << pair("DOWN", 0, 1), pair("UP", 1, 0) >> >>],
    [requirementType |-> "REQUIRED_SUBSEQUENCE", requiredTiles |-> {},
     requiredSolutionSubsequences |->
       << << pair("UP", 1, 0), pair("DOWN", 0, 1) >> >>],
    [requirementType |-> "REQUIRED_SUBSEQUENCE", requiredTiles |-> {},
     requiredSolutionSubsequences |->
       << << pair("DOWN", 0, 1) >>, << pair("RIGHT", 1, 1) >> >>] }

\* A call of the validator: a grid of at most ValMaxCells cells with
\* symmetric walls whose goal can be reached from the start, its cached
\* shortest path, a move list of at most MaxMoves moves and a constraint.
ValInit ==
  /\ width \in 1 .. MaxWidth
  /\ height \in 1 .. MaxHeight
  /\ width * height >= 2
  /\ width * height <= ValMaxCells
  /\ start = << 0, 0 >>
  /\ goal \in Cells \ {start}
  /\ walls \in {gridOf(e, b) : e \in SUBSET interiorEdges, b \in BOOLEAN}
  /\ shortestPath(walls) >= 0
  /\ optimalLength = shortestPath(walls)
  /\ visited = [c \in Cells |-> FALSE]
  /\ current = start
  /\ stack = << >>
  /\ noGeneration
  /\ noRetry
  /\ noTools
  /\ moves \in moveLists
  /\ constraint \in Constraints
  /\ position = start
  /\ pathLength = 0
  /\ isValid = TRUE
  /\ reachesGoal = FALSE
  /\ path = << >>
  /\ efficiency = << >>
  /\ constraintsSatisfied = "null"
  /\ retryOutcome = "none"
  /\ rescoreOutcome = "none"
  /\ pc = "replay"

ValNext ==
  \/ ReplayMove
  \/ ReplayExhausted
  \/ FinishValidation
  \/ RetryDeriveOutcome
  \/ RescoreDeriveOutcome

ValSpec == ValInit /\ [][ValNext]_vars



\* ------------------------------------------------- open-passage graph
\* The cells reachable from `frontier` through open passages, staying inside
\* `allowed` and never crossing the edge `cut` (a set of two cells, or {}).
RECURSIVE reachSet(_, _, _, _, _)
reachSet(w, frontier, seen, allowed, cut) ==
  LET next == {c \in allowed \ seen :
                 \E f \in frontier : /\ c \in Range(getNeighbors(f))
                                     /\ Open(w, f, c)
                                     /\ {f, c} # cut}
  IN IF next = {} THEN seen ELSE reachSet(w, next, seen \cup next, allowed, cut)

\* No open passage lies on a cycle: with the passage removed, its two ends
\* are no longer connected.
acyclic(w) ==
  \A a \in Cells : \A b \in Range(getNeighbors(a)) :
    Open(w, a, b) => b \notin reachSet(w, {a}, {a}, Cells, {a, b})

\* The changes of heading along a cell sequence.
realTurns(s) ==
  Cardinality({k \in 2 .. Len(s) - 1 :
                 getDirection(s[k - 1], s[k]) # getDirection(s[k], s[k + 1])})

spineCells == {c \in Cells : isSpine[c]}

\* A cell whose wall to a neighbour is open although the cell is unvisited:
\* what a Phase-1 backtrack leaves behind.
stubCells == {c \in Cells : ~visited[c] /\ \E d \in WallNames : ~walls[c][d]}

phase1Succeeded == pc \notin {"spine", "failed"}

\* --------------------------------------------------------------- claims

\* C1: wall symmetry -- in every state of a generation, for every pair of
\* grid-adjacent cells A and B, A's wall flag facing B equals B's flag facing A.
C1_WallSymmetry ==
  \A a \in Cells : \A b \in Range(getNeighbors(a)) :
    walls[a][wallToward(a, b)] = walls[b][wallToward(b, a)]

\* A finished generation in which each of the three phases removed a wall.
C1_Witness ==
  /\ pc = "done"
  /\ phaseLog = << 1, 2, 3 >>
  /\ \E c \in Cells : branchOf[c] > 0
  /\ \E c \in Cells : visited[c] /\ ~isSpine[c] /\ branchOf[c] = 0

\* C2 (as claimed): every successful generation returns a grid whose shortest
\* start-to-goal path has at least ceil(manhattanDistance x tortuosity) moves.
C2_ShortestPathAtLeastMin ==
  result = "grid" => shortestPath(walls) >= minPathLength

\* C3 (as claimed): with minTurns > 0 an accepted spine has at least minTurns
\* changes of heading, also after backtracking.
C3_AcceptedSpineHasMinTurns ==
  (phase1Succeeded /\ minTurns > 0) => realTurns(spine) >= minTurns

\* C4 (as claimed): the open-passage graph of a maze produced by phases 1 and
\* 2 alone (fillRemaining off) has no cycle.
C4_NoCycleAfterBranches ==
  (pc = "done" /\ ~config.fillRemaining) => acyclic(walls)

\* C5 (as claimed): the shortest start-to-goal path after fillRemainingAreas
\* is as long as it was before it.
C5_FillKeepsShortestPath ==
  (pc = "done" /\ config.fillRemaining) => shortestPath(walls) = distBeforeFill

\* C6: once Phase 1 has succeeded the spine is a sequence of pairwise distinct
\* cells from start to goal whose consecutive cells are grid-adjacent with the
\* wall between them open (both flags), and so the goal is reachable from start.
C6_SpineIsOpenPath ==
  phase1Succeeded =>
    /\ spine[1] = start
    /\ spine[Len(spine)] = goal
    /\ \A k, l \in DOMAIN spine : k # l => spine[k] # spine[l]
    /\ \A k \in 1 .. Len(spine) - 1 :
         /\ spine[k + 1] \in Range(getNeighbors(spine[k]))
         /\ Open(walls, spine[k], spine[k + 1])
         /\ Open(walls, spine[k + 1], spine[k])
    /\ shortestPath(walls) >= 0

\* Phase 1 succeeded after a backtrack (a stub is left) with a spine that
\* goes up at some point.
C6_Witness ==
  /\ pc = "branches"
  /\ stubCells # {}
  /\ \E k \in 1 .. Len(spine) - 1 : getDirection(spine[k], spine[k + 1]) = "up"

\* A measure of the work a call has left, as one natural number.  Phase 3
\* ranks below Phase 2, Phase 2 below Phase 1, a return is 0.
\* Phase 3: passes left, scan positions left, then the DFS (two per
\* unvisited cell, one per stack entry).
dfsSpan == 2 * width * height + 3

passSpan == (width * height + 1) * dfsSpan

fillRank ==
  (2 - fillPass) * passSpan + (width * height - scan) * dfsSpan
    + (IF pc = "fillDFS"
       THEN 2 * Cardinality({c \in Cells : ~visited[c]}) + Len(stack)
       ELSE dfsSpan - 1)

fillRankMax == 2 * passSpan + dfsSpan

\* Phase 2: spine cells left, then the walk steps left, the shuffled cells
\* left and the linear steps left.
linSpan == SubBranchMinLen + SubBranchLenRange + 2

walkBase == (width * height + 1) * linSpan

branchSpan == walkBase + config.maxBranchLength + 2

branchRank ==
  (width * height + 1 - i) * branchSpan
    + (CASE pc = "branches" -> branchSpan - 1
         [] pc = "walk" -> walkBase + walkLeft
         [] pc = "sub" -> Cardinality(shuffleLeft) * linSpan
         [] OTHER -> Cardinality(shuffleLeft) * linSpan + linDepth + 1)

branchRankMax == (width * height + 1) * branchSpan

rank ==
  CASE pc \in {"done", "failed"} -> 0
    [] pc \in {"fill", "fillDFS"} -> 1 + fillRank
    [] pc \in {"branches", "walk", "sub", "linear"} -> 2 + fillRankMax + branchRank
    [] OTHER -> 3 + fillRankMax + branchRankMax
                  + (width * height * IterationFactor + 1 - iterations)

\* C7: every call terminates -- each step of each phase lowers a natural-
\* valued measure of the work left (so no call runs forever), and Phase 1
\* fails at the first iteration beyond width x height x 10 and never runs a
\* later one.
C7_Terminates ==
  [][ /\ rank' < rank
      /\ rank' >= 0
      /\ iterations' <= width * height * IterationFactor + 1
      /\ (failReason' = "cap" <=> iterations' = width * height * IterationFactor + 1)
    ]_vars

\* Phase 1 gave up at the iteration cap.
C7_Witness ==
  /\ pc = "failed"
  /\ failReason = "cap"
  /\ iterations > maxIterations

\* C8: null is returned exactly when Phase 1 failed, and then neither Phase 2
\* nor Phase 3 has run (no cell off the spine was carved); Phase 1 runs once;
\* a grid is returned after phases 1, 2 and, only if fillRemaining, 3, once
\* each and in that order.
C8_PhaseOrder ==
  /\ (result = "null") <=> (failReason # "none")
  /\ (pc = "failed") <=> (result = "null")
  /\ pc = "failed" =>
       /\ phaseLog = << 1 >>
       /\ \A c \in Cells : branchOf[c] = 0 /\ (visited[c] => isSpine[c])
  /\ (pc = "done") <=> (result = "grid")
  /\ pc = "done" =>
       phaseLog = IF config.fillRemaining THEN << 1, 2, 3 >> ELSE << 1, 2 >>
  /\ \E n \in 1 .. 3 : phaseLog = SubSeq(<< 1, 2, 3 >>, 1, n)

\* Phase 1 reached the goal over a carved spine and rejected it.
C8_Witness ==
  /\ pc = "failed"
  /\ failReason \in {"short", "turns"}
  /\ Len(spine) >= 3

\* C9: no step of any phase closes an open wall.
C9_NoWallReadded ==
  [][\A c \in Cells : \A d \in WallNames : ~walls[c][d] => ~walls'[c][d]]_vars

\* Phase 1 has just backtracked: the popped cell is unvisited, its wall open.
C9_Witness ==
  /\ pc = "spine"
  /\ stubCells # {}
  /\ \E c \in stubCells : Open(walls, current, c) /\ c \in Range(getNeighbors(current))

\* C10: in a returned grid, cells of two different branches are connected
\* only by paths through a spine cell.
C10_BranchesMeetOnlyViaSpine ==
  result = "grid" =>
    \A a, b \in Cells :
      (branchOf[a] > 0 /\ branchOf[b] > 0 /\ branchOf[a] # branchOf[b]) =>
        b \notin reachSet(walls, {a}, {a}, Cells \ spineCells, {})

\* A returned grid with cells of two branches side by side.
C10_Witness ==
  /\ result = "grid"
  /\ \E a, b \in Cells : /\ branchOf[a] > 0 /\ branchOf[b] > 0
                         /\ branchOf[a] # branchOf[b]
                         /\ b \in Range(getNeighbors(a))

\* ================================================== successive calls
\* A grid object kept from one call to the next: the cells the new grid
\* shares with the last one still carry that call's walls and flags.
callGrid_Kept ==
  [c \in Cells' |->
     IF c \in Cells
     THEN [walls |-> walls[c], visited |-> visited[c], isSpine |-> isSpine[c]]
     ELSE initializeGrid'[c]]

\* line 565: const grid = initializeGrid(width, height), for the arguments of
\* the call being entered.
callGrid == initializeGrid'

MaxCalls == 2

\* A call has returned (a grid or null) and generateSpineFirstMaze is called
\* again for a grid of the same size, with any start, goal and config: lines
\* 557-565, then generateSpine's set-up (lines 215-233).
NewCall ==
  /\ pc \in {"done", "failed"}
  /\ calls < MaxCalls
  /\ calls' = calls + 1
  /\ width' = width
  /\ height' = height
  /\ start' \in {c \in Cells' : c[2] = 0 /\ c[1] <= 1}
  /\ goal' \in Cells'
  /\ config' \in Configs
  /\ walls' = [c \in Cells' |-> callGrid[c].walls]
  /\ visited' = [c \in Cells' |-> callGrid[c].visited \/ c = start']
  /\ isSpine' = [c \in Cells' |-> callGrid[c].isSpine \/ c = start']
  /\ spine' = << start' >>
  /\ current' = start'
  /\ turnCount' = 0
  /\ lastDirection' = "none"
  /\ iterations' = 0
  /\ hadPop' = {}
  /\ i' = 0
  /\ lastBranchIndex' = 0
  /\ branchCells' = << >>
  /\ walkLeft' = 0
  /\ maxSubBranches' = 0
  /\ subBranchesAdded' = 0
  /\ shuffleLeft' = {}
  /\ linCell' = start'
  /\ linDepth' = 0
  /\ fillPass' = 1
  /\ scan' = 0
  /\ stack' = << >>
  /\ pc' = "spine"
  /\ result' = "none"
  /\ failReason' = "none"
  /\ phaseLog' = << 1 >>
  /\ branchOf' = [c \in Cells' |-> 0]
  /\ distBeforeFill' = 0
  /\ carves' = {}
  /\ UNCHANGED << valVars, retryVars, toolVars >>

CallsNext ==
  \/ Next
  \/ NewCall

\* Up to MaxCalls calls of generateSpineFirstMaze, one after the other.
CallsSpec == Init /\ [][CallsNext]_vars

\* The state at the entry of a call is the one a first call with the same
\* arguments starts from (Init, the count of calls aside).
entryOf(w, h, st, gl, cfg) ==
  [walls |-> [c \in (0 .. w - 1) \X (0 .. h - 1) |-> [d \in WallNames |-> TRUE]],
   visited |-> [c \in (0 .. w - 1) \X (0 .. h - 1) |-> c = st],
   isSpine |-> [c \in (0 .. w - 1) \X (0 .. h - 1) |-> c = st],
   spine |-> << st >>, current |-> st, turnCount |-> 0, lastDirection |-> "none",
   iterations |-> 0, pc |-> "spine", result |-> "none", failReason |-> "none"]

\* What a call works on and returns.
callState ==
  [walls |-> walls, visited |-> visited, isSpine |-> isSpine, spine |-> spine,
   current |-> current, turnCount |-> turnCount, lastDirection |-> lastDirection,
   iterations |-> iterations, pc |-> pc, result |-> result,
   failReason |-> failReason]

dfsBacktrack_GiveUp(st) == << >>

\* Backtrack: pop the path stack.
dfsBacktrack(st) == SubSeq(st, 1, Len(st) - 1)

DfsStep ==
  /\ pc = "dfs"
  /\ Len(stack) > 0
  /\ LET cell == stack[Len(stack)]
         ns == getUnvisitedNeighbors(visited, cell)
     IN IF Len(ns) = 0
        THEN /\ stack' = dfsBacktrack(stack)
             /\ UNCHANGED << walls, visited >>
        ELSE \E k \in Rand :
               LET next == ns[floorMul(k, Len(ns)) + 1]
               IN /\ walls' = removeWallBetween(walls, cell, next)
                  /\ visited' = [visited EXCEPT ![next] = TRUE]
                  /\ stack' = Append(stack, next)
  /\ UNCHANGED << args, calls, valVars, retryVars, toolVars, isSpine, spineVars, branchVars, fillPass, scan,
                  pc, result, failReason, phaseLog, branchOf, carves, distBeforeFill >>

\* The stack is empty: the grid is returned.
DfsFinish ==
  /\ pc = "dfs"
  /\ Len(stack) = 0
  /\ pc' = "dfsDone"
  /\ result' = "grid"
  /\ UNCHANGED << args, calls, valVars, retryVars, toolVars, walls, visited, isSpine, spineVars, branchVars,
                  fillVars, failReason, phaseLog, branchOf, carves, distBeforeFill >>

\* A call of the DFS generator: every grid up to MaxWidth x MaxHeight of at
\* most MaxCells cells, any seed cell, the goal in the far corner.
DfsInit ==
  /\ width \in 1 .. MaxWidth
  /\ height \in 1 .. MaxHeight
  /\ width * height <= MaxCells
  /\ start \in Cells
  /\ goal = << width - 1, height - 1 >>
  /\ walls = [c \in Cells |-> initializeGrid[c].walls]
  /\ visited = [c \in Cells |-> c = start]
  /\ stack = << start >>
  /\ current = start
  /\ noGeneration
  /\ noValidation
  /\ noRetry
  /\ noTools
  /\ pc = "dfs"

DfsNext ==
  \/ DfsStep
  \/ DfsFinish

DfsSpec == DfsInit /\ [][DfsNext]_vars

\* The open passages of a grid: the pairs of adjacent cells whose walls
\* toward each other are both off.
passages(w) ==
  {e \in {{a, b} : a \in Cells, b \in Cells} :
     \E a \in e : \E b \in e :
       b \in Range(getNeighbors(a)) /\ Open(w, a, b) /\ Open(w, b, a)}

\* What is left for the backtracker to do: two steps per unvisited cell (its
\* push and its pop), one pop per stacked cell, and the return.
dfsRank ==
  2 * Cardinality({c \in Cells : ~visited[c]}) + Len(stack)
  + (IF pc = "dfs" THEN 1 ELSE 0)

\* C17: the DFS generator always succeeds and yields a perfect maze -- every
\* step brings it nearer its return, it returns a grid, and the returned
\* grid has exactly width x height - 1 open passages, every cell reachable
\* from every other.
C17_DfsPerfectMaze ==
  /\ [](pc = "dfsDone" =>
          /\ result = "grid"
          /\ Cardinality(passages(walls)) = width * height - 1
          /\ \A c \in Cells : reachSet(walls, {c}, {c}, Cells, {}) = Cells)
  /\ [][dfsRank' < dfsRank /\ dfsRank' >= 0]_vars

\* A returned grid of the largest size whose walk had to backtrack before
\* its last cell: two cells that are dead ends, neither of them the seed.
C17_Witness ==
  /\ pc = "dfsDone"
  /\ width = MaxWidth
  /\ height = MaxHeight
  /\ Cardinality({c \in Cells \ {start} :
                    Cardinality({e \in passages(walls) : c \in e}) = 1}) >= 2

\* ------------------------------------------------ validator: the claims
\* The position after the first k moves of the list, walls and bounds aside.
RECURSIVE posAfter(_)
posAfter(k) == IF k = 0 THEN start ELSE moveTarget(posAfter(k - 1), moves[k])

\* Move k, made from where the k - 1 moves before it lead, crosses an open
\* wall and stays in the grid.
legalMove(k) ==
  /\ inBounds(posAfter(k - 1))
  /\ inBounds(posAfter(k))
  /\ ~walls[posAfter(k - 1)][moveWall(moves[k])]

\* Move k is the first illegal move of the replay: the moves before it are
\* legal and none of them arrives at the goal.
firstIllegal(k) ==
  /\ k \in 1 .. Len(moves)
  /\ ~legalMove(k)
  /\ \A j \in 1 .. k - 1 : legalMove(j) /\ posAfter(j) # goal

\* Move k is the first to arrive at the goal, after legal moves only.
firstGoal(k) ==
  /\ k \in 1 .. Len(moves)
  /\ \A j \in 1 .. k : legalMove(j)
  /\ posAfter(k) = goal
  /\ \A j \in 1 .. k - 1 : posAfter(j) # goal

\* The number of moves of the realized path.
realizedLength ==
  IF \E k \in 1 .. Len(moves) : firstIllegal(k)
  THEN (CHOOSE k \in 1 .. Len(moves) : firstIllegal(k)) - 1
  ELSE IF \E k \in 1 .. Len(moves) : firstGoal(k)
  THEN CHOOSE k \in 1 .. Len(moves) : firstGoal(k)
  ELSE Len(moves)

realizedPair(k) == [move |-> moves[k], position |-> posAfter(k)]

replayOver == pc \in {"constraints", "validated"}

\* C12: the validator stops at the first illegal move -- if move k is the
\* first of the replay to hit a closed wall or to leave the grid, the result
\* has isValid = false, pathLength = k - 1 and finalPosition the position
\* before move k; once the replay is over no step changes these fields.
C12_StopsAtFirstIllegalMove ==
  /\ [](replayOver =>
          \A k \in 1 .. Len(moves) :
            firstIllegal(k) => /\ isValid = FALSE
                               /\ pathLength = k - 1
                               /\ position = posAfter(k - 1)
                               /\ reachesGoal = FALSE
                               /\ Len(path) = k - 1)
  /\ [][replayOver => UNCHANGED << position, pathLength, isValid, reachesGoal,
                                    path, moves >>]_vars

\* A replay stopped by a move off the grid through an open border wall, made
\* after a legal move and with a move still behind it.
C12_Witness ==
  /\ pc = "validated"
  /\ \E k \in 2 .. Len(moves) - 1 :
       /\ firstIllegal(k)
       /\ ~inBounds(posAfter(k))
       /\ ~walls[posAfter(k - 1)][moveWall(moves[k])]
       /\ isValid = FALSE

\* C13: the validator stops successfully the first time the position is the
\* goal -- reachesGoal = true, isValid = true, pathLength the number of moves
\* consumed so far; the moves behind are never evaluated, illegal or not.
C13_StopsAtGoal ==
  replayOver =>
    \A k \in 1 .. Len(moves) :
      firstGoal(k) => /\ reachesGoal = TRUE
                      /\ isValid = TRUE
                      /\ pathLength = k
                      /\ position = goal
                      /\ Len(path) = k

\* The goal was reached with an illegal move still behind it in the list.
C13_Witness ==
  /\ pc = "validated"
  /\ reachesGoal
  /\ pathLength < Len(moves)
  /\ ~canMove(walls, goal, moves[pathLength + 1])

\* C14: efficiency is optimalPathLength / pathLength exactly when the replay
\* reaches the goal and null otherwise; reaching the goal in exactly
\* optimalPathLength moves gives efficiency 1.
C14_Efficiency ==
  pc = "validated" =>
    /\ (efficiency # << >>) <=> (\E k \in 1 .. Len(moves) : firstGoal(k))
    /\ \A k \in 1 .. Len(moves) :
         firstGoal(k) => /\ efficiency = << optimalLength, k >>
                         /\ (k = optimalLength <=> efficiency[1] = efficiency[2])

\* A move list that reaches the goal by a detour of more moves than the
\* shortest path: its efficiency is below 1.
C14_Witness ==
  /\ pc = "validated"
  /\ reachesGoal
  /\ pathLength > optimalLength
  /\ efficiency = << optimalLength, pathLength >>

\* C15: with a required-tiles constraint, constraintsSatisfied is true if and
\* only if every required position is among the positions visited up to and
\* including the arrival at the goal.
C15_RequiredTiles ==
  (pc = "validated" /\ constraint.requirementType = "REQUIRED_TILES") =>
    /\ constraintsSatisfied \in {"true", "false"}
    /\ constraintsSatisfied = "true" <=>
         \A t \in constraint.requiredTiles :
           \E k \in 0 .. realizedLength : posAfter(k) = t

\* A path that reaches the goal over one required tile and misses another.
C15_Witness ==
  /\ pc = "validated"
  /\ constraint.requirementType = "REQUIRED_TILES"
  /\ reachesGoal
  /\ constraintsSatisfied = "false"
  /\ \E t \in constraint.requiredTiles : \E k \in 0 .. pathLength : posAfter(k) = t

\* C16: with a required-subsequence constraint, constraintsSatisfied is true
\* if and only if each listed sequence of (move, position) pairs occurs in
\* the realized path in order, contiguous or not.
C16_RequiredSubsequence ==
  (pc = "validated" /\ constraint.requirementType = "REQUIRED_SUBSEQUENCE") =>
    /\ constraintsSatisfied \in {"true", "false"}
    /\ constraintsSatisfied = "true" <=>
         \A n \in DOMAIN constraint.requiredSolutionSubsequences :
           LET sub == constraint.requiredSolutionSubsequences[n]
           IN \E f \in [1 .. Len(sub) -> 1 .. realizedLength] :
                /\ \A a \in 1 .. Len(sub) - 1 : f[a] < f[a + 1]
                /\ \A a \in 1 .. Len(sub) : realizedPair(f[a]) = sub[a]

\* A sequence of two pairs matched by the first and the third pair of the
\* realized path, another pair between them.
C16_Witness ==
  /\ pc = "validated"
  /\ constraint.requirementType = "REQUIRED_SUBSEQUENCE"
  /\ constraintsSatisfied = "true"
  /\ Len(path) = 3
  /\ \E n \in DOMAIN constraint.requiredSolutionSubsequences :
       LET sub == constraint.requiredSolutionSubsequences[n]
       IN Len(sub) = 2 /\ path[1] = sub[1] /\ path[3] = sub[2] /\ path[2] # sub[2]

\* The outcome the claim gives for a ValidationResult.
claimedOutcome ==
  IF ~isValid THEN "invalid_move"
  ELSE IF reachesGoal /\ constraintsSatisfied = "false" THEN "constraint_violated"
  ELSE IF reachesGoal THEN "success"
  ELSE "failure"

\* C18: retry and rescore-maze derive the same outcome from a
\* ValidationResult -- invalid_move if isValid is false, else
\* constraint_violated if the goal is reached and constraintsSatisfied is
\* false, else success if the goal is reached, else failure; a path that does
\* not reach the goal is never a success nor constraint_violated.
C18_SameOutcome ==
  /\ retryOutcome # "none" => retryOutcome = claimedOutcome
  /\ rescoreOutcome \notin {"none", "skipped"} => rescoreOutcome = claimedOutcome
  /\ ~reachesGoal => /\ retryOutcome \notin {"success", "constraint_violated"}
                     /\ rescoreOutcome \notin {"success", "constraint_violated"}

\* Both callers scored a legal path that ends short of the goal while the
\* maze's constraint is not satisfied.
C18_Witness ==
  /\ isValid
  /\ ~reachesGoal
  /\ constraintsSatisfied = "false"
  /\ retryOutcome = "failure"
  /\ rescoreOutcome = "failure"

\* The guard of the backtrack branch of generateSpine's loop (lines 236-249):
\* the walk is not at the goal, the iteration cap is not hit, the current cell
\* has no unvisited neighbour and the spine holds more than one cell.
backtrackGuard ==
  /\ pc = "spine"
  /\ current # goal
  /\ iterations + 1 <= maxIterations
  /\ Len(getUnvisitedNeighbors(visited, current)) = 0
  /\ Len(spine) > 1

\* C19: a Phase-1 backtrack step pops exactly the top spine cell, clears its
\* visited and isSpine flags and makes the previous spine cell current; every
\* wall flag, turnCount and lastDirection stay as they were, so the passage
\* carved into the popped cell stays open.  The spine shrinks in Phase 1 by
\* no other step.
C19_BacktrackFrame ==
  [][/\ backtrackGuard =>
          /\ spine' = SubSeq(spine, 1, Len(spine) - 1)
          /\ visited' = [visited EXCEPT ![current] = FALSE]
          /\ isSpine' = [isSpine EXCEPT ![current] = FALSE]
          /\ current' = spine[Len(spine) - 1]
          /\ walls' = walls
          /\ turnCount' = turnCount
          /\ lastDirection' = lastDirection
          /\ Open(walls', current', current)
     /\ (pc = "spine" /\ pc' = "spine" /\ Len(spine') < Len(spine)) => backtrackGuard
    ]_vars

\* Phase 1 has backtracked over a turn: the popped cell is a stub and the
\* counted turns exceed the changes of heading the spine really has.
C19_Witness ==
  /\ pc = "spine"
  /\ stubCells # {}
  /\ turnCount > realTurns(spine)
  /\ lastDirection # "none"

\* C20 (as claimed): a spine is accepted only if its length in moves from
\* start to goal is at least ceil(manhattanDistance(start, goal) x tortuosity).
C20_AcceptedSpineLongEnough ==
  phase1Succeeded => Len(spine) - 1 >= minPathLength

\* ------------------------------------------- Phase 1 with any goal position
\* generateSpineFirstMaze checks neither start nor goal against the grid
\* (lines 557-568): Phase 1 on grids of up to GoalSide x GoalSide cells, with
\* a goal position the grid may or may not hold.
GoalSide == 2

AnyGoalInit ==
  /\ width \in 1 .. GoalSide
  /\ height \in 1 .. GoalSide
  /\ start \in {c \in Cells : c[2] = 0}
  /\ goal \in (0 .. GoalSide) \X (0 .. GoalSide)
  /\ config \in Configs
  /\ callEntry

\* generateSpine alone: its loop, and its return at the goal.
SpineNext ==
  \/ SpineStep
  \/ SpineFinish

AnyGoalSpec == AnyGoalInit /\ [][SpineNext]_vars

\* No generator call, validation or retry run uses the grid variables.
noGrid ==
  /\ width = 1
  /\ height = 1
  /\ start = << 0, 0 >>
  /\ goal = << 0, 0 >>
  /\ walls = [c \in Cells |-> initializeGrid[c].walls]
  /\ visited = [c \in Cells |-> FALSE]
  /\ current = start
  /\ stack = << >>

\* ======================================================== executeRetry
\* executeRetry (retry.ts, lines 196-382): every selected evaluation is run
\* again as a task of a concurrency limiter; the tasks share the database and
\* the counters completed, successes and failures.
MaxEvals == 3

MaxConcurrency == 2

\* The outcomes the evaluations to retry were stored with.
OriginalOutcomes == {"failure", "parse_error"}

\* What evaluateMaze resolves with, as far as the outcome depends on it: the
\* raw response empty or not, the finish reason, the moves parsed or not, and
\* what their validation says.
Responses ==
  { [rawEmpty |-> TRUE, finishReason |-> "length", parsed |-> FALSE,
     isValid |-> FALSE, reachesGoal |-> FALSE, constraintsSatisfied |-> "null"],
    [rawEmpty |-> TRUE, finishReason |-> "stop", parsed |-> FALSE,
     isValid |-> FALSE, reachesGoal |-> FALSE, constraintsSatisfied |-> "null"],
    [rawEmpty |-> FALSE, finishReason |-> "stop", parsed |-> FALSE,
     isValid |-> FALSE, reachesGoal |-> FALSE, constraintsSatisfied |-> "null"],
    [rawEmpty |-> FALSE, finishReason |-> "stop", parsed |-> TRUE,
     isValid |-> FALSE, reachesGoal |-> FALSE, constraintsSatisfied |-> "null"],
    [rawEmpty |-> FALSE, finishReason |-> "stop", parsed |-> TRUE,
     isValid |-> TRUE, reachesGoal |-> FALSE, constraintsSatisfied |-> "null"],
    [rawEmpty |-> FALSE, finishReason |-> "stop", parsed |-> TRUE,
     isValid |-> TRUE, reachesGoal |-> TRUE, constraintsSatisfied |-> "false"],
    [rawEmpty |-> FALSE, finishReason |-> "stop", parsed |-> TRUE,
     isValid |-> TRUE, reachesGoal |-> TRUE, constraintsSatisfied |-> "true"] }

\* lines 249-307: the outcome of a response.
responseOutcome(response) ==
  IF response.rawEmpty
  THEN IF response.finishReason = "length" THEN "token_limit" ELSE "empty_response"
  ELSE IF ~response.parsed THEN "parse_error"
  ELSE retryOutcomeOf(response)

\* The row an evaluation is stored with before the run.
originalRow(e) == [outcome |-> evaluations[e].outcome, completedAt |-> "original"]

\* lines 310-327: the evaluation with the new response in place.
updatedResult(e, outcome) == [outcome |-> outcome, completedAt |-> "retry"]

\* The tasks the limiter has started and that have not settled.
activeTasks == {e \in DOMAIN task : task[e] = "calling"}

pendingTasks == {e \in DOMAIN task : task[e] = "queued"}

\* db/client (drizzle.config.ts, lines 20-74): the module variable db, 0 for
\* null, and the connections made so far, numbered in the order they were
\* made; openConns are those not closed.
dbState == [db |-> db, openConns |-> openConns, conns |-> conns]

\* lines 25-54: initDatabase() makes a connection and stores it in db.
initDatabase(s) ==
  [db |-> s.conns + 1, openConns |-> s.openConns \cup {s.conns + 1}, conns |-> s.conns + 1]

\* lines 69-74: closeDatabase() closes the connection in db, if there is one.
closeDatabase(s) ==
  [db |-> 0, openConns |-> IF s.db # 0 THEN s.openConns \ {s.db} ELSE s.openConns,
   conns |-> s.conns]

\* lines 59-64: getDatabase() returns the connection or throws.
getDatabase == IF db = 0 THEN "throws" ELSE "returns"

\* A catch block that counts no API error.
countApiError_Never(n) == n

\* line 355: failures++
countApiError(n) == n + 1

\* A run that starts every task at once.
mayStart_Unlimited == TRUE

\* line 203, limit = pLimit(concurrency): a task starts while fewer than
\* `concurrency` are running.
mayStart == Cardinality(activeTasks) < concurrency

\* A run that does not wait for its tasks.
allSettled_NotAwaited == TRUE

\* line 365, await Promise.all(retryPromises): every task has settled.
allSettled == activeTasks = {} /\ pendingTasks = {}

\* The limiter starts the next task in line when fewer than `concurrency` are
\* running.  The task looks its maze up (lines 233-237) and returns if there
\* is none; else it builds the prompt and calls the model (lines 240-245).
RetryStartTask ==
  /\ pc \in {"retry", "summary"}
  /\ pendingTasks # {}
  /\ mayStart
  /\ LET e == CHOOSE x \in pendingTasks : \A y \in pendingTasks : x <= y
     IN /\ task' = [task EXCEPT ![e] = IF evaluations[e].mazeId \in mazesFound
                                        THEN "calling" ELSE "nomaze"]
        /\ attempts' = [attempts EXCEPT ![e] = @ + 1]
  /\ UNCHANGED << genData, valVars, toolVars, walls, current, stack, pc, evaluations, concurrency,
                  mazesFound, rows, completed, successes, failures, thrown >>

\* lines 245-330: the call resolves; the outcome is derived, the row updated
\* in place and the evaluation counted.  An updateEvaluation on a closed
\* connection throws, which the catch block (lines 352-361) counts.
RetryCallReturns ==
  /\ pc \in {"retry", "summary"}
  /\ \E e \in activeTasks : \E response \in Responses :
       LET outcome == responseOutcome(response)
       IN /\ successes' = IF outcome = "success" THEN successes + 1 ELSE successes
          /\ completed' = completed + 1
          /\ IF handle \in openConns
             THEN /\ rows' = [rows EXCEPT ![evaluations[e].id] = updatedResult(e, outcome)]
                  /\ task' = [task EXCEPT ![e] = "updated"]
                  /\ UNCHANGED failures
             ELSE /\ task' = [task EXCEPT ![e] = "dbError"]
                  /\ failures' = countApiError(failures)
                  /\ UNCHANGED rows
  /\ UNCHANGED << genData, valVars, toolVars, walls, current, stack, pc, evaluations, concurrency,
                  mazesFound, thrown, attempts >>

\* lines 352-361: the call throws; the original evaluation is kept, the error
\* counted and logged.
RetryCallThrows ==
  /\ pc \in {"retry", "summary"}
  /\ \E e \in activeTasks :
       /\ task' = [task EXCEPT ![e] = "error"]
       /\ thrown' = thrown \cup {e}
  /\ completed' = completed + 1
  /\ failures' = countApiError(failures)
  /\ UNCHANGED << genData, valVars, toolVars, walls, current, stack, pc, evaluations, concurrency,
                  mazesFound, rows, successes, attempts >>

\* lines 365-381: every task has settled; the database is closed and the
\* summary printed.
RetrySummary ==
  /\ pc = "retry"
  /\ allSettled
  /\ pc' = "summary"
  /\ db' = closeDatabase(dbState).db
  /\ openConns' = closeDatabase(dbState).openConns
  /\ UNCHANGED << genData, valVars, retryVars, storageVars, cliVars, generateVars, conns, handle,
                  walls, current, stack >>

\* executeRetry after its set-up (lines 196-228), the connection of line 224
\* open: a run over up to MaxEvals evaluations of mazes 1 and 2, some of them
\* missing from the test set, with up to MaxConcurrency calls at once.
RetryInit ==
  /\ noGrid
  /\ noGeneration
  /\ noValidation
  /\ noStorage
  /\ noCli
  /\ noGenerate
  /\ db = 1
  /\ openConns = {1}
  /\ conns = 1
  /\ handle = 1
  /\ \E n \in 1 .. MaxEvals :
       /\ evaluations \in {ev \in [1 .. n -> [id : 1 .. n, mazeId : {1, 2},
                                              outcome : OriginalOutcomes, isHuman : {FALSE}]] :
                             \A e \in 1 .. n : ev[e].id = e}
       /\ task = [e \in 1 .. n |-> "queued"]
  /\ attempts = [e \in DOMAIN evaluations |-> 0]
  /\ rows = [e \in DOMAIN evaluations |-> originalRow(e)]
  /\ concurrency \in 1 .. MaxConcurrency
  /\ mazesFound \in {{1}, {1, 2}}
  /\ completed = 0
  /\ successes = 0
  /\ failures = 0
  /\ thrown = {}
  /\ pc = "retry"

RetryNext ==
  \/ RetryStartTask
  \/ RetryCallReturns
  \/ RetryCallThrows
  \/ RetrySummary

RetrySpec == RetryInit /\ [][RetryNext]_vars

\* ============================================== the retry and rescore commands
\* The commands that read and rewrite the evaluations table: retry by maze
\* (retry.ts, runByMazeId), retry by outcome (runByOutcome) and rescore-maze.
\* `table` holds the columns of the evaluations table the queries look at;
\* `rows` holds what the commands rewrite.
MaxRows == 2

MazeIds == {1, 2}

RunIds == {1, 2}

Tables ==
  UNION {[1 .. n -> [mazeId : MazeIds, runId : RunIds,
                     outcome : OriginalOutcomes, isHuman : BOOLEAN]] : n \in 1 .. MaxRows}

\* retry.ts, lines 26-35
RETRYABLE_OUTCOMES ==
  {"empty_response", "token_limit", "parse_error", "failure", "invalid_move",
   "timeout", "api_error", "constraint_violated"}

\* retry.ts, line 548: the concurrency of a retry by outcome.
OutcomeConcurrency == 3

\* lines 52-80 of retry.ts: a row as an EvaluationResult.
evaluationOf(t, id) ==
  [id |-> id, mazeId |-> t[id].mazeId, outcome |-> t[id].outcome, isHuman |-> t[id].isHuman]

\* The rows a query returns, in the order of the table.
queryAll(t, ids) ==
  LET kept == SelectSeq([id \in 1 .. Len(t) |-> id], LAMBDA id : id \in ids)
  IN [k \in 1 .. Len(kept) |-> evaluationOf(t, kept[k])]

\* retry.ts, lines 88-91: WHERE maze_id = ? AND (is_human = 0 OR is_human IS NULL)
whereMazeId(t, mazeId) == {id \in DOMAIN t : t[id].mazeId = mazeId /\ ~t[id].isHuman}

\* retry.ts, lines 85-125
getEvaluationsByMazeId(t, mazeId) == queryAll(t, whereMazeId(t, mazeId))

\* retry.ts, lines 44-47: WHERE run_id = ? AND outcome IN (...)
whereRunAndOutcome(t, runId, outcomes) ==
  {id \in DOMAIN t : t[id].runId = runId /\ t[id].outcome \in outcomes}

\* retry.ts, lines 37-83
getEvaluationsToRetry(t, runId, outcomes) == queryAll(t, whereRunAndOutcome(t, runId, outcomes))

\* getRunSummaries: one summary per run_id of the table, with the outcomes
\* of its rows.
getRunSummaries(t) ==
  {[runId |-> r, outcomes |-> {t[id].outcome : id \in {other \in DOMAIN t : t[other].runId = r}}] :
     r \in {t[id].runId : id \in DOMAIN t}}

\* rescore-maze, lines 48-51: SELECT * FROM evaluations WHERE maze_id = ?
getEvaluations(t, mazeId) == queryAll(t, {id \in DOMAIN t : t[id].mazeId = mazeId})

\* What validateSolutionWithConstraints says of the stored moves, as far as
\* the new outcome depends on it.
Validations ==
  [isValid : BOOLEAN, reachesGoal : BOOLEAN, constraintsSatisfied : {"null", "true", "false"}]

\* A query function of retry.ts: initDatabase, the query, closeDatabase
\* (lines 42 and 81; 86 and 123; in getRunSummaries lines 35 and 95).
queried(s) == closeDatabase(initDatabase(s))

\* runByMazeId, lines 384-436: the maze id is asked for, the evaluations of
\* the maze are read, and the concurrency is asked for.
RunByMazeId ==
  /\ pc = "start"
  /\ flow = "retryMaze"
  /\ \E mazeId \in MazeIds :
       /\ selection' = [mazeId |-> mazeId]
       /\ evaluations' = getEvaluationsByMazeId(table, mazeId)
       /\ mazesFound' = {mazeId}
  /\ \E c \in 1 .. MaxConcurrency : concurrency' = c
  /\ db' = queried(dbState).db
  /\ openConns' = queried(dbState).openConns
  /\ conns' = queried(dbState).conns
  /\ pc' = IF evaluations' = << >> THEN "done" ELSE "confirm"
  /\ UNCHANGED << genData, valVars, storageVars, generateVars, walls, current, stack, handle, flow, table,
                  updated, unchanged, rescoreAt, task, rows, completed, successes, failures,
                  thrown, attempts >>

\* runByOutcome, lines 458-464: the runs of the table are listed.
RunByOutcomeSummaries ==
  /\ pc = "start"
  /\ flow = "retryOutcome"
  /\ db' = queried(dbState).db
  /\ openConns' = queried(dbState).openConns
  /\ conns' = queried(dbState).conns
  /\ pc' = IF getRunSummaries(table) = {} THEN "done" ELSE "select"
  /\ UNCHANGED << genData, valVars, storageVars, generateVars, retryVars, walls, current, stack, handle,
                  cliVars >>

\* runByOutcome, lines 466-522: a run is selected, then some of the
\* retryable outcomes it has; the evaluations with them are read and the
\* test set of the run is loaded.
RunByOutcomeSelect ==
  /\ pc = "select"
  /\ \E selectedRun \in getRunSummaries(table) :
       LET retryableInRun == RETRYABLE_OUTCOMES \cap selectedRun.outcomes
       IN IF retryableInRun = {}
          THEN /\ pc' = "done"
               /\ UNCHANGED << dbVars, selection, evaluations, mazesFound, concurrency >>
          ELSE /\ \E selectedOutcomes \in SUBSET retryableInRun \ {{}} :
                    /\ selection' = [runId |-> selectedRun.runId, outcomes |-> selectedOutcomes]
                    /\ evaluations' =
                         getEvaluationsToRetry(table, selectedRun.runId, selectedOutcomes)
               /\ \E found \in {{1}, {1, 2}} : mazesFound' = found
               /\ concurrency' = OutcomeConcurrency
               /\ db' = queried(dbState).db
               /\ openConns' = queried(dbState).openConns
               /\ conns' = queried(dbState).conns
               /\ UNCHANGED handle
               /\ pc' = "confirm"
  /\ UNCHANGED << genData, valVars, storageVars, generateVars, walls, current, stack, flow, table,
                  updated, unchanged, rescoreAt, task, rows, completed, successes, failures,
                  thrown, attempts >>

\* lines 439-447 and 533-541: the user does not confirm.
RetryCancelled ==
  /\ pc = "confirm"
  /\ pc' = "done"
  /\ UNCHANGED << genData, valVars, storageVars, generateVars, retryVars, dbVars, cliVars, generateVars, walls, current, stack >>

\* executeRetry, lines 196-231: the database is opened and one task per
\* evaluation is handed to the limiter.
ExecuteRetry ==
  /\ pc = "confirm"
  /\ db' = initDatabase(dbState).db
  /\ openConns' = initDatabase(dbState).openConns
  /\ conns' = initDatabase(dbState).conns
  /\ handle' = initDatabase(dbState).db
  /\ task' = [e \in DOMAIN evaluations |-> "queued"]
  /\ attempts' = [e \in DOMAIN evaluations |-> 0]
  /\ completed' = 0
  /\ successes' = 0
  /\ failures' = 0
  /\ pc' = "retry"
  /\ UNCHANGED << genData, valVars, storageVars, generateVars, cliVars, walls, current, stack, evaluations,
                  concurrency, mazesFound, rows, thrown >>

\* rescore-maze, lines 106-115: the evaluations of the maze are read by
\* getEvaluations, which opens the database (line 49) and leaves it open;
\* without evaluations the command closes it and exits.
RescoreGetEvaluations ==
  /\ pc = "start"
  /\ flow = "rescore"
  /\ \E mazeId \in MazeIds :
       /\ selection' = [mazeId |-> mazeId]
       /\ evaluations' = getEvaluations(table, mazeId)
  /\ LET s == IF evaluations' = << >> THEN closeDatabase(initDatabase(dbState))
                                      ELSE initDatabase(dbState)
     IN /\ db' = s.db
        /\ openConns' = s.openConns
        /\ conns' = s.conns
  /\ pc' = IF evaluations' = << >> THEN "done" ELSE "rescoreOpen"
  /\ UNCHANGED << genData, valVars, storageVars, generateVars, walls, current, stack, handle, flow, table,
                  updated, unchanged, rescoreAt, concurrency, mazesFound, task, rows,
                  completed, successes, failures, thrown, attempts >>

\* rescore-maze, lines 118-120: const db = initDatabase(dbPath), and the
\* counters.
RescoreOpen ==
  /\ pc = "rescoreOpen"
  /\ db' = initDatabase(dbState).db
  /\ openConns' = initDatabase(dbState).openConns
  /\ conns' = initDatabase(dbState).conns
  /\ handle' = initDatabase(dbState).db
  /\ updated' = 0
  /\ unchanged' = 0
  /\ rescoreAt' = 1
  /\ pc' = "rescore"
  /\ UNCHANGED << genData, valVars, storageVars, generateVars, retryVars, walls, current, stack, flow, table,
                  selection >>

\* rescore-maze, lines 122-188: one evaluation of the loop.  Without moves
\* it is skipped; else the moves are validated again and the row is updated
\* if the outcome changed.
RescoreStep ==
  /\ pc = "rescore"
  /\ rescoreAt <= Len(evaluations)
  /\ \E hasMoves \in BOOLEAN : \E v \in Validations :
       LET evaluation == evaluations[rescoreAt]
           newOutcome == rescoreOutcomeOf(v)
       IN IF hasMoves /\ newOutcome # evaluation.outcome
          THEN /\ rows' = [rows EXCEPT ![evaluation.id].outcome = newOutcome]
               /\ updated' = updated + 1
               /\ UNCHANGED unchanged
          ELSE /\ unchanged' = unchanged + 1
               /\ UNCHANGED << rows, updated >>
  /\ rescoreAt' = rescoreAt + 1
  /\ UNCHANGED << genData, valVars, storageVars, generateVars, dbVars, walls, current, stack, pc, flow, table,
                  selection, evaluations, concurrency, mazesFound, task, completed, successes,
                  failures, thrown, attempts >>

\* rescore-maze, lines 191-196: closeDatabase() and the summary.
RescoreClose ==
  /\ pc = "rescore"
  /\ rescoreAt > Len(evaluations)
  /\ db' = closeDatabase(dbState).db
  /\ openConns' = closeDatabase(dbState).openConns
  /\ pc' = "done"
  /\ UNCHANGED << genData, valVars, storageVars, generateVars, retryVars, cliVars, conns, handle,
                  walls, current, stack >>

\* A command starts on a table of up to MaxRows evaluations, no connection
\* open.
CliInit ==
  /\ noGrid
  /\ noGeneration
  /\ noValidation
  /\ noStorage
  /\ noDatabase
  /\ noGenerate
  /\ flow \in {"retryMaze", "retryOutcome", "rescore"}
  /\ table \in Tables
  /\ selection = << >>
  /\ updated = 0
  /\ unchanged = 0
  /\ rescoreAt = 0
  /\ evaluations = << >>
  /\ concurrency = 1
  /\ mazesFound = {}
  /\ task = << >>
  /\ attempts = << >>
  /\ rows = [id \in DOMAIN table |-> [outcome |-> table[id].outcome, completedAt |-> "original"]]
  /\ completed = 0
  /\ successes = 0
  /\ failures = 0
  /\ thrown = {}
  /\ pc = "start"

CliNext ==
  \/ RunByMazeId
  \/ RunByOutcomeSummaries
  \/ RunByOutcomeSelect
  \/ RetryCancelled
  \/ ExecuteRetry
  \/ RetryStartTask
  \/ RetryCallReturns
  \/ RetryCallThrows
  \/ RetrySummary
  \/ RescoreGetEvaluations
  \/ RescoreOpen
  \/ RescoreStep
  \/ RescoreClose

CliSpec == CliInit /\ [][CliNext]_vars

\* ======================================================= the generate command
\* runGeneration (src/unnamed/part_002, lines 322-428): for each requested
\* difficulty, `count` mazes are generated, those that succeed are stored
\* under the difficulty, and the summary is written at the end.
MaxDifficulties == 2

MaxCount == 2

\* The keys of testSet.mazes and of summary.byDifficulty (lines 349-368).
DIFFICULTIES == {"simple", "easy", "medium", "hard", "nightmare", "horror"}

\* lines 345-369: the test set runGeneration starts from.
emptyTestSet ==
  [mazes |-> [d \in DIFFICULTIES |-> << >>],
   summary |-> [totalMazes |-> 0, byDifficulty |-> [d \in DIFFICULTIES |-> 0]]]

\* lines 377-399: one pass of the inner loop.  generateMaze returns a maze,
\* which is pushed on the list, or null, which is skipped.
GenerateOne ==
  /\ pc = "generate"
  /\ difficultyAt <= Len(difficulties)
  /\ mazeAt < count
  /\ \E maze \in {<< >>, << << difficultyAt, mazeAt >> >>} :
       difficultyMazes' = IF maze = << >> THEN difficultyMazes
                                          ELSE Append(difficultyMazes, maze[1])
  /\ mazeAt' = mazeAt + 1
  /\ UNCHANGED << genData, valVars, retryVars, storageVars, dbVars, cliVars, walls, current, stack,
                  pc, difficulties, count, testSet, totalGenerated, difficultyAt >>

\* lines 400-402: the inner loop is over; the list is stored under the
\* difficulty, its length becomes the count of the difficulty and is added
\* to the total.
StoreDifficulty ==
  /\ pc = "generate"
  /\ difficultyAt <= Len(difficulties)
  /\ mazeAt >= count
  /\ LET difficulty == difficulties[difficultyAt]
     IN testSet' = [testSet EXCEPT !.mazes[difficulty] = difficultyMazes,
                                   !.summary.byDifficulty[difficulty] = Len(difficultyMazes)]
  /\ totalGenerated' = totalGenerated + Len(difficultyMazes)
  /\ difficultyAt' = difficultyAt + 1
  /\ mazeAt' = 0
  /\ difficultyMazes' = << >>
  /\ UNCHANGED << genData, valVars, retryVars, storageVars, dbVars, cliVars, walls, current, stack,
                  pc, difficulties, count >>

\* lines 405-412: the outer loop is over; the total is stored and the file
\* written.
WriteTestSet ==
  /\ pc = "generate"
  /\ difficultyAt > Len(difficulties)
  /\ testSet' = [testSet EXCEPT !.summary.totalMazes = totalGenerated]
  /\ pc' = "written"
  /\ UNCHANGED << genData, valVars, retryVars, storageVars, dbVars, cliVars, walls, current, stack,
                  difficulties, count, totalGenerated, difficultyMazes, difficultyAt, mazeAt >>

\* runGeneration at the head of its outer loop, called by the action of the
\* command (lines 456-491) with a list of up to MaxDifficulties valid
\* difficulties, repeated ones included, and a count of up to MaxCount.
GenerateInit ==
  /\ noGrid
  /\ noGeneration
  /\ noValidation
  /\ noRetry
  /\ noStorage
  /\ noDatabase
  /\ noCli
  /\ difficulties \in UNION {[1 .. n -> DIFFICULTIES] : n \in 1 .. MaxDifficulties}
  /\ count \in 0 .. MaxCount
  /\ testSet = emptyTestSet
  /\ totalGenerated = 0
  /\ difficultyMazes = << >>
  /\ difficultyAt = 1
  /\ mazeAt = 0
  /\ pc = "generate"

GenerateNext ==
  \/ GenerateOne
  \/ StoreDifficulty
  \/ WriteTestSet

GenerateSpec == GenerateInit /\ [][GenerateNext]_vars

\* ========================================================= mazeStorage
\* The maze designer's storage (mazeStorage.ts): the saved designs are one
\* object keyed by name, kept in localStorage.  `savedMazes` is that object,
\* its entries in the order of their keys (the order Object.values follows).
MaxUuids == 2

MaxTestMazes == 2

Names == {"a", "b"}

\* The ids of test-set mazes; like uuidv4's, an id is a pair of a kind and a number.
TestIds == {<< "test", k >> : k \in 1 .. MaxTestMazes}

storageCell(t, r, b, l) == [walls |-> [top |-> t, right |-> r, bottom |-> b, left |-> l]]

\* Cell[][] grids, rows of cells: two cells side by side with and without a
\* passage between them, and two cells one above the other.
rowOpen == << << storageCell(TRUE, FALSE, TRUE, TRUE), storageCell(TRUE, TRUE, TRUE, FALSE) >> >>

rowClosed == << << storageCell(TRUE, TRUE, TRUE, TRUE), storageCell(TRUE, TRUE, TRUE, TRUE) >> >>

columnOpen == << << storageCell(TRUE, TRUE, FALSE, TRUE) >>, << storageCell(FALSE, TRUE, TRUE, TRUE) >> >>

\* What syncIdsFromTestSet compares of a design or test-set maze.
Shapes ==
  { [difficulty |-> "easy", start |-> [x |-> 0, y |-> 0], goal |-> [x |-> 1, y |-> 0],
     grid |-> rowOpen],
    [difficulty |-> "easy", start |-> [x |-> 0, y |-> 0], goal |-> [x |-> 1, y |-> 0],
     grid |-> rowClosed],
    [difficulty |-> "hard", start |-> [x |-> 0, y |-> 0], goal |-> [x |-> 0, y |-> 1],
     grid |-> columnOpen] }

\* SavedMazeDesign (lines 8-25); id is << >> when absent.
designOf(name, id, shape) ==
  [name |-> name, id |-> id, difficulty |-> shape.difficulty, start |-> shape.start,
   goal |-> shape.goal, grid |-> shape.grid]

Designs == {designOf(n, id, sh) : n \in Names, id \in {<< >>, << << "test", 1 >> >>}, sh \in Shapes}

\* TestSetMaze (lines 116-122)
TestMazes ==
  {[id |-> id, difficulty |-> sh.difficulty, start |-> sh.start, goal |-> sh.goal,
    grid |-> sh.grid] : id \in TestIds, sh \in Shapes}

\* The mazes of a test set, flattened (lines 147-150): up to MaxTestMazes
\* mazes, the ids in their order.
TestSets ==
  {ts \in UNION {[1 .. n -> TestMazes] : n \in 0 .. MaxTestMazes} :
     \A k \in DOMAIN ts : ts[k].id = << "test", k >>}

\* uuidv4(): the k-th identifier drawn, different from all others.
uuidv4(k) == << "uuid", k >>

\* mazes[name]: the position of the key, 0 if it is absent.
keyIndex(mazes, name) ==
  IF \E k \in DOMAIN mazes : mazes[k].name = name
  THEN CHOOSE k \in DOMAIN mazes : mazes[k].name = name
  ELSE 0

\* mazes[name] = value: in place for an existing key, at the end for a new one.
setKey(mazes, name, value) ==
  IF keyIndex(mazes, name) = 0 THEN Append(mazes, value)
  ELSE [mazes EXCEPT ![keyIndex(mazes, name)] = value]

\* delete mazes[name]
deleteKey(mazes, name) == SelectSeq(mazes, LAMBDA d : d.name # name)

\* A save that always draws a new identifier.
savedId_Fresh(design, mazes) == << uuidv4(uuids + 1) >>

\* line 58: design.id ?? existingMaze?.id ?? uuidv4()
savedId(design, mazes) ==
  LET k == keyIndex(mazes, design.name)
  IN IF design.id # << >> THEN design.id
     ELSE IF k # 0 /\ mazes[k].id # << >> THEN mazes[k].id
     ELSE << uuidv4(uuids + 1) >>

\* saveMaze(design), lines 50-64
SaveMaze ==
  /\ pc = "storage"
  /\ \E design \in Designs :
       /\ lastOp' = [op |-> "save", tick |-> 1 - lastOp.tick, name |-> design.name, hadId |-> design.id # << >>,
                     existed |-> keyIndex(savedMazes, design.name) # 0]
       /\ IF ~hasWindow
          THEN UNCHANGED << savedMazes, uuids >>
          ELSE LET id == savedId(design, savedMazes)
               IN /\ id = << uuidv4(uuids + 1) >> => uuids < MaxUuids
                  /\ uuids' = IF id = << uuidv4(uuids + 1) >> THEN uuids + 1 ELSE uuids
                  /\ savedMazes' = setKey(savedMazes, design.name, [design EXCEPT !.id = id])
  /\ syncOut' = [updated |-> 0, matched |-> << >>, unmatched |-> << >>]
  /\ UNCHANGED << genData, valVars, retryVars, dbVars, cliVars, generateVars, walls, current, stack, pc, hasWindow >>

\* deleteMaze(name), lines 77-82
DeleteMaze ==
  /\ pc = "storage"
  /\ \E name \in Names :
       /\ lastOp' = [op |-> "delete", tick |-> 1 - lastOp.tick, name |-> name]
       /\ savedMazes' = IF hasWindow THEN deleteKey(savedMazes, name) ELSE savedMazes
  /\ syncOut' = [updated |-> 0, matched |-> << >>, unmatched |-> << >>]
  /\ UNCHANGED << genData, valVars, retryVars, dbVars, cliVars, generateVars, walls, current, stack, pc, hasWindow, uuids >>

\* A comparison that takes any two grids of the same size for equal.
gridsEqual_SizeOnly(a, b) ==
  /\ Len(a) = Len(b)
  /\ \A y \in 1 .. Len(a) : Len(a[y]) = Len(b[y])

\* gridsEqual(a, b), lines 95-114
gridsEqual(a, b) ==
  /\ Len(a) = Len(b)
  /\ \A y \in 1 .. Len(a) :
       /\ Len(a[y]) = Len(b[y])
       /\ \A x \in 1 .. Len(a[y]) :
            /\ a[y][x].walls.top = b[y][x].walls.top
            /\ a[y][x].walls.right = b[y][x].walls.right
            /\ a[y][x].walls.bottom = b[y][x].walls.bottom
            /\ a[y][x].walls.left = b[y][x].walls.left

\* lines 158-165: the condition under which a saved maze matches a test maze.
isMatch(saved, testMaze) ==
  /\ saved.difficulty = testMaze.difficulty
  /\ saved.start.x = testMaze.start.x
  /\ saved.start.y = testMaze.start.y
  /\ saved.goal.x = testMaze.goal.x
  /\ saved.goal.y = testMaze.goal.y
  /\ gridsEqual(saved.grid, testMaze.grid)

\* lines 156-175: the first test maze that matches, 0 if the loop finds none.
firstMatch(saved, testSetMazes) ==
  IF \E k \in DOMAIN testSetMazes : isMatch(saved, testSetMazes[k])
  THEN CHOOSE k \in DOMAIN testSetMazes :
         /\ isMatch(saved, testSetMazes[k])
         /\ \A j \in 1 .. (k - 1) : ~isMatch(saved, testSetMazes[j])
  ELSE 0

\* lines 153-180, the loop over savedList from its k-th maze on: the object,
\* the counter and the two lists it ends with.
RECURSIVE syncLoop(_, _, _, _)
syncLoop(savedList, k, testSetMazes, acc) ==
  IF k > Len(savedList) THEN acc
  ELSE LET saved == savedList[k]
           m == firstMatch(saved, testSetMazes)
       IN IF m = 0
          THEN syncLoop(savedList, k + 1, testSetMazes,
                        [acc EXCEPT !.unmatched = Append(@, saved.name)])
          ELSE LET testMaze == testSetMazes[m]
                   change == saved.id # << testMaze.id >>
               IN syncLoop(savedList, k + 1, testSetMazes,
                    [mazes |-> IF change
                               THEN setKey(acc.mazes, saved.name,
                                           [saved EXCEPT !.id = << testMaze.id >>])
                               ELSE acc.mazes,
                     updated |-> IF change THEN acc.updated + 1 ELSE acc.updated,
                     matched |-> Append(acc.matched, [name |-> saved.name, id |-> testMaze.id]),
                     unmatched |-> acc.unmatched])

\* syncIdsFromTestSet(testSet), lines 133-188
SyncIdsFromTestSet ==
  /\ pc = "storage"
  /\ \E testSetMazes \in TestSets :
       /\ lastOp' = [op |-> "sync", tick |-> 1 - lastOp.tick, testSet |-> testSetMazes]
       /\ IF ~hasWindow
          THEN /\ syncOut' = [updated |-> 0, matched |-> << >>, unmatched |-> << >>]
               /\ UNCHANGED savedMazes
          ELSE LET out == syncLoop(savedMazes, 1, testSetMazes,
                                   [mazes |-> savedMazes, updated |-> 0,
                                    matched |-> << >>, unmatched |-> << >>])
               IN /\ syncOut' = [updated |-> out.updated, matched |-> out.matched,
                                 unmatched |-> out.unmatched]
                  /\ savedMazes' = IF out.updated > 0 THEN out.mazes ELSE savedMazes
  /\ UNCHANGED << genData, valVars, retryVars, dbVars, cliVars, generateVars, walls, current, stack, pc, hasWindow, uuids >>

\* The designer with its storage empty, or holding one design saved before
\* designs had ids; without a window there is no storage.
StorageInit ==
  /\ noGrid
  /\ pc = "storage"
  /\ noGeneration
  /\ noValidation
  /\ noRetry
  /\ noDatabase
  /\ noCli
  /\ noGenerate
  /\ hasWindow \in BOOLEAN
  /\ savedMazes \in {<< >>} \cup
       (IF hasWindow THEN {<< designOf("b", << >>, sh) >> : sh \in Shapes} ELSE {})
  /\ uuids = 0
  /\ syncOut = [updated |-> 0, matched |-> << >>, unmatched |-> << >>]
  /\ lastOp = [op |-> "none", tick |-> 0]

StorageNext ==
  \/ SaveMaze
  \/ DeleteMaze
  \/ SyncIdsFromTestSet

StorageSpec == StorageInit /\ [][StorageNext]_vars

\* The walk stands on the only cell of the spine, not the goal, and has no
\* unvisited neighbour to go to: the case of lines 245-247.
stuckAtStart ==
  /\ pc = "spine"
  /\ current # goal
  /\ Len(spine) <= 1
  /\ Len(getUnvisitedNeighbors(visited, current)) = 0

\* C21: if Phase 1 has to backtrack while the spine holds a single cell,
\* generateSpine returns failure at once.
C21_StuckFailsAtOnce ==
  [][(stuckAtStart /\ iterations + 1 <= maxIterations) =>
       (pc' = "failed" /\ result' = "null" /\ failReason' = "stuck")]_vars

\* The call failed at its first iteration, on the start cell alone.
C21_Witness ==
  /\ pc = "failed"
  /\ failReason = "stuck"
  /\ spine = << start >>
  /\ iterations = 1

\* C22: with fillRemaining set, after Phase 3 every cell is visited and can
\* be reached from start through open passages.
C22_FillReachesEveryCell ==
  (pc = "done" /\ config.fillRemaining) =>
    /\ \A c \in Cells : visited[c]
    /\ reachSet(walls, {start}, {start}, Cells, {}) = Cells

\* A returned grid with a cell that only Phase 3 visited and that touches no
\* spine cell.
C22_Witness ==
  /\ pc = "done"
  /\ config.fillRemaining
  /\ \E c \in Cells : /\ ~isSpine[c]
                      /\ branchOf[c] = 0
                      /\ \A n \in Range(getNeighbors(c)) : ~isSpine[n]

\* C23 (as claimed): Phase 3 never touches the spine's own walls -- no step
\* of fillRemainingAreas changes a wall flag of a spine cell.
C23_FillKeepsSpineWalls ==
  [][(pc \in {"fill", "fillDFS"}) =>
       (\A c \in spineCells : walls'[c] = walls[c])]_vars

\* The spine indices Phase 2 has spawned a branch from.
branchPoints == {branchOf[c] : c \in Cells} \ {0}

\* C24: any two spine indices from which Phase 2 spawned a branch are at
\* least minBranchSpacing apart (5 when not configured).
C24_BranchSpacing ==
  \A a \in branchPoints : \A b \in branchPoints :
    a < b => b - a >= minSpacing

\* Two branches, under a configured spacing of two or more.
C24_Witness ==
  /\ Cardinality(branchPoints) >= 2
  /\ minSpacing >= 2

\* C25: Phase 2 never spawns a branch from the first or the last spine cell:
\* no wall flag of the start cell or of the goal cell changes during Phase 2.
C25_EndpointsKeepWalls ==
  [][(pc \in {"branches", "walk", "sub", "linear"}) =>
       (walls'[start] = walls[start] /\ walls'[goal] = walls[goal])]_vars

\* Phase 2 has spawned a branch and is over, and it left unvisited
\* neighbours off the spine both at the start and at the goal.
C25_Witness ==
  /\ pc = "done"
  /\ branchPoints # {}
  /\ Len(getFreeNeighbors(visited, start)) > 0
  /\ Len(getFreeNeighbors(visited, goal)) > 0

\* The cells of the main walk of the branch spawned at spine index b, its
\* first cell included.
mainWalkCells(b) == {r.to : r \in {q \in carves : q.level = 1 /\ branchOf[q.to] = b}}

\* C26 (as claimed): every branch spawned in Phase 2 has a main walk of at
\* least minBranchLength and at most maxBranchLength cells, its first cell
\* counted (a walk still under way is held to the upper bound only).
C26_MainWalkWithinBounds ==
  \A b \in branchPoints :
    /\ Cardinality(mainWalkCells(b)) <= maxBranchLen
    /\ (pc = "walk" /\ b = i) \/ Cardinality(mainWalkCells(b)) >= minBranchLen

\* The level of the passage that was carved into a cell; 0 for a cell Phase 2
\* did not carve into.
levelOf(c) ==
  IF \E r \in carves : r.to = c THEN (CHOOSE r \in carves : r.to = c).level ELSE 0

\* C27: recursion depth is exactly two levels -- every passage carved in
\* Phase 2 starts from a spine cell (a branch's first cell), or from a cell
\* of a branch's main walk, or continues a sub-branch, and then it is the
\* only passage carved out of that sub-branch cell.
C27_TwoLevels ==
  \A r \in carves :
    \/ isSpine[r.from] /\ r.level = 1
    \/ levelOf(r.from) = 1
    \/ /\ levelOf(r.from) = 2
       /\ r.level = 2
       /\ Cardinality({q \in carves : q.from = r.from}) = 1

\* A sub-branch of three cells, its second cell with a free neighbour the
\* sub-branch did not take.
C27_Witness ==
  \E r \in carves : \E q \in carves :
    /\ levelOf(r.from) = 2
    /\ r.level = 2
    /\ q.from = r.to
    /\ \E n \in Range(getNeighbors(r.to)) : ~visited[n] /\ ~isSpine[n]

\* The passages that start the sub-branches of the branch at spine index b.
subStarts(b) ==
  {r \in carves : r.level = 2 /\ levelOf(r.from) = 1 /\ branchOf[r.to] = b}

\* The cells of the sub-branch from cell c on.
RECURSIVE chainLen(_)
chainLen(c) ==
  IF \E q \in carves : q.from = c /\ q.level = 2
  THEN 1 + chainLen((CHOOSE q \in carves : q.from = c /\ q.level = 2).to)
  ELSE 1

\* C28 (as claimed): each branch spawns at most 3 sub-branches, none of them
\* from the branch's first cell, and each sub-branch has fewer cells than
\* the main walk of its branch.
C28_SubBranchesFewAndShorter ==
  \A b \in branchPoints :
    /\ Cardinality(subStarts(b)) <= 3
    /\ \A r \in subStarts(b) :
         /\ ~ \E q \in carves : q.to = r.from /\ isSpine[q.from]
         /\ chainLen(r.to) < Cardinality(mainWalkCells(b))

\* The unvisited neighbours of the current cell that some jitter draw makes
\* the chosen one.
choosable ==
  LET ns == getUnvisitedNeighbors(visited, current)
  IN {ns[chosenIndex(ns, ks)] : ks \in [1 .. Len(ns) -> Rand]}

\* C29 (as claimed): at every step of Phase 1, each unvisited neighbour of
\* the current cell is the chosen one under some jitter values, also while
\* turnCount is below minTurns.
C29_JitterDominates ==
  (pc = "spine" /\ current # goal)
    => choosable = Range(getUnvisitedNeighbors(visited, current))

\* C30: in executeRetry, an evaluation whose model call threw keeps its
\* stored row as it was, is counted once as completed and once as an API
\* error, and does not stop the run: by the summary every evaluation has
\* been attempted.
C30_ThrowKeepsRowAndRun ==
  /\ \A e \in thrown : rows[e] = originalRow(e)
  /\ failures = Cardinality(thrown)
  /\ completed = Cardinality({e \in DOMAIN task : task[e] \in {"updated", "error"}})
  /\ pc = "summary" => \A e \in DOMAIN task : task[e] \in {"updated", "error", "nomaze"}

\* The first call threw, a later evaluation was retried and stored, and the
\* summary is reached.
C30_Witness ==
  /\ pc = "summary"
  /\ \E e \in thrown : \E f \in DOMAIN task :
       e < f /\ task[f] = "updated" /\ rows[f] # originalRow(f)

\* The entry stored under a name, << >> if there is none.
entryOfName(mazes, name) ==
  IF keyIndex(mazes, name) = 0 THEN << >> ELSE << mazes[keyIndex(mazes, name)] >>

\* C31: saveMaze keeps ids persistent -- the design it stores has an id; a
\* save without an id under a name that is stored with an id keeps that id,
\* so the id stays the one of the first save until the name is deleted; and
\* the entries of all other names stay as they were.
C31_SaveKeepsIds ==
  [][(lastOp'.op = "save" /\ hasWindow) =>
       LET n == lastOp'.name
           old == entryOfName(savedMazes, n)
           new == entryOfName(savedMazes', n)
       IN /\ new # << >>
          /\ new[1].id # << >>
          /\ (~lastOp'.hadId /\ old # << >> /\ old[1].id # << >>) => new[1].id = old[1].id
          /\ \A m \in Names \ {n} : entryOfName(savedMazes', m) = entryOfName(savedMazes, m)]_vars

\* A design without an id was saved over a stored one whose id saveMaze had
\* drawn, while another name was stored too.
C31_Witness ==
  /\ lastOp.op = "save"
  /\ hasWindow
  /\ ~lastOp.hadId
  /\ lastOp.existed
  /\ entryOfName(savedMazes, lastOp.name)[1].id = << uuidv4(1) >>
  /\ uuids = 2
  /\ Len(savedMazes) = 2

\* The test-set mazes with the difficulty, start, goal and wall grid of a
\* saved maze.
sameMaze(saved, testSetMazes) ==
  {k \in DOMAIN testSetMazes :
     /\ testSetMazes[k].difficulty = saved.difficulty
     /\ testSetMazes[k].start = saved.start
     /\ testSetMazes[k].goal = saved.goal
     /\ testSetMazes[k].grid = saved.grid}

matchedNames == {syncOut.matched[k].name : k \in DOMAIN syncOut.matched}

unmatchedNames == {syncOut.unmatched[k] : k \in DOMAIN syncOut.unmatched}

\* C32: after syncIdsFromTestSet every saved name is in exactly one of
\* matched and unmatched; a matched maze is stored with the id of the first
\* test-set maze of its difficulty, start, goal and walls; unmatched mazes
\* are stored as before; updated counts the matched mazes whose id changed,
\* and a sync repeated with the same test set reports updated = 0.
C32_SyncAssignsFirstMatch ==
  /\ [](lastOp.op = "sync" =>
          /\ Len(syncOut.matched) + Len(syncOut.unmatched) = Len(savedMazes)
          /\ matchedNames \cup unmatchedNames = {savedMazes[k].name : k \in DOMAIN savedMazes}
          /\ matchedNames \cap unmatchedNames = {}
          /\ \A k \in DOMAIN savedMazes :
               LET saved == savedMazes[k]
                   same == sameMaze(saved, lastOp.testSet)
               IN IF saved.name \in matchedNames
                  THEN /\ same # {}
                       /\ \A j \in same : (\A h \in same : j <= h)
                            => saved.id = << lastOp.testSet[j].id >>
                  ELSE same = {})
  /\ [][lastOp'.op = "sync" =>
          /\ \A n \in unmatchedNames' : entryOfName(savedMazes', n) = entryOfName(savedMazes, n)
          /\ syncOut'.updated =
               Cardinality({n \in matchedNames' :
                              entryOfName(savedMazes', n)[1].id # entryOfName(savedMazes, n)[1].id})
          /\ (lastOp.op = "sync" /\ lastOp'.testSet = lastOp.testSet) => syncOut'.updated = 0]_vars

\* A sync that matched one saved maze and changed its id, the test set
\* holding two mazes like it, and left another maze unmatched.
C32_Witness ==
  /\ lastOp.op = "sync"
  /\ syncOut.updated = 1
  /\ Len(syncOut.matched) = 1
  /\ Len(syncOut.unmatched) = 1
  /\ \E k \in DOMAIN savedMazes :
       /\ savedMazes[k].name \in matchedNames
       /\ Cardinality(sameMaze(savedMazes[k], lastOp.testSet)) = 2

\* C33: during Phase 1, at the head of every loop iteration, a cell is
\* visited iff it is marked isSpine iff it is on the spine stack; the stack
\* holds no cell twice; and current is the top of the stack.
C33_SpineStackInvariant ==
  pc = "spine" =>
    /\ \A c \in Cells : visited[c] = isSpine[c] /\ isSpine[c] = (c \in Range(spine))
    /\ \A a \in DOMAIN spine : \A b \in DOMAIN spine : spine[a] = spine[b] => a = b
    /\ Len(spine) > 0
    /\ current = spine[Len(spine)]

\* The head of an iteration after a backtrack, the spine still three cells
\* long.
C33_Witness ==
  /\ pc = "spine"
  /\ hadPop # {}
  /\ Len(spine) >= 3
  /\ current # goal

\* C34 (as claimed): on a grid of at least two cells Phase 1 never pops in
\* two consecutive iterations -- after a pop the cell on top has an
\* unvisited neighbour -- and never pops a cell a successor was popped
\* from; so the spine never stands stuck on a single cell, and a failure of
\* Phase 1 is due to the iteration cap, the length check or the turn check.
C34_PopsAreIsolated ==
  /\ [](Cardinality(Cells) >= 2 =>
          /\ ~stuckAtStart
          /\ failReason \in {"none", "cap", "short", "turns"})
  /\ [][(Cardinality(Cells) >= 2 /\ pc = "spine" /\ Len(spine') < Len(spine)) =>
          /\ current \notin hadPop
          /\ Len(getUnvisitedNeighbors(visited', current')) > 0]_vars

\* A call on a 3 x 3 grid that backtracked and then failed at the iteration
\* cap.
C34_Witness ==
  /\ pc = "failed"
  /\ failReason = "cap"
  /\ hadPop # {}
  /\ Cardinality(Cells) = 9

\* C35: in executeRetry, under every interleaving of the model calls' ends,
\* at most `concurrency` evaluations are in flight at a time, no evaluation
\* is started twice, and when the summary is printed every evaluation of
\* the list has been started once.
C35_BoundedAndOnce ==
  (pc \in {"retry", "summary"}) =>
    /\ Cardinality(activeTasks) <= concurrency
    /\ \A e \in DOMAIN evaluations :
         /\ attempts[e] <= 1
         /\ (attempts[e] = 0) = (task[e] = "queued")
    /\ (pc = "summary") => \A e \in DOMAIN evaluations : attempts[e] = 1

\* Two calls in flight under a limit of two while a third evaluation waits.
C35_Witness ==
  /\ pc = "retry"
  /\ concurrency = 2
  /\ Cardinality(activeTasks) = 2
  /\ pendingTasks # {}

\* C36: in executeRetry the database is closed only after every task has
\* settled: no row is updated and no updateEvaluation fails on a closed
\* connection, and when the summary is printed the connection is closed and
\* completed is the number of evaluations whose maze was found.
C36_CloseAfterSettle ==
  /\ []((pc \in {"retry", "summary"}) =>
          /\ \A e \in DOMAIN task : task[e] # "dbError"
          /\ (pc = "retry") => (handle \in openConns /\ db = handle)
          /\ (pc = "summary") =>
               /\ db = 0
               /\ openConns = {}
               /\ activeTasks = {}
               /\ pendingTasks = {}
               /\ completed = Cardinality({e \in DOMAIN evaluations :
                                             evaluations[e].mazeId \in mazesFound}))
  /\ [][(pc \in {"retry", "summary"} /\ rows' # rows) =>
          (pc = "retry" /\ handle \in openConns)]_vars

\* A summary after one evaluation was updated, one call threw and one maze
\* was missing.
C36_Witness ==
  /\ pc = "summary"
  /\ \E e \in DOMAIN task : task[e] = "updated"
  /\ \E e \in DOMAIN task : task[e] = "error"
  /\ \E e \in DOMAIN task : task[e] = "nomaze"
  /\ completed = 2

\* C37 (as claimed): at most one database connection is open at any time:
\* in the retry and rescore commands initDatabase is never called while an
\* earlier connection is unclosed, a command that has ended has left no
\* connection open, and getDatabase throws whenever no connection is open.
C37_OneConnection ==
  /\ [](/\ Cardinality(openConns) <= 1
        /\ (pc \in {"done", "summary"}) => openConns = {}
        /\ (openConns = {}) => getDatabase = "throws")
  /\ [][(conns' > conns) => openConns = {}]_vars

\* C39 (as claimed): in neither mode does the retry command run an
\* evaluation recorded as human again or overwrite its row.
C39_HumanRowsUntouched ==
  (flow \in {"retryMaze", "retryOutcome"}) =>
    /\ \A e \in DOMAIN attempts : evaluations[e].isHuman => attempts[e] = 0
    /\ \A id \in DOMAIN table :
         table[id].isHuman => rows[id] = [outcome |-> table[id].outcome, completedAt |-> "original"]

\* The sum of a count per difficulty over the difficulties of a set.
RECURSIVE sumOfCounts(_, _)
sumOfCounts(counts, ds) ==
  IF ds = {} THEN 0
  ELSE LET d == CHOOSE x \in ds : TRUE
       IN counts[d] + sumOfCounts(counts, ds \ {d})

\* C38 (as claimed): after runGeneration, summary.totalMazes is the sum of
\* summary.byDifficulty and the number of mazes stored in testSet.mazes,
\* for every list of difficulties, one naming a difficulty twice included,
\* and every pattern of failed generations; and a failed generation adds
\* no maze and no count.
C38_SummaryAddsUp ==
  /\ []((pc = "written") =>
          /\ testSet.summary.totalMazes = sumOfCounts(testSet.summary.byDifficulty, DIFFICULTIES)
          /\ testSet.summary.totalMazes =
               sumOfCounts([d \in DIFFICULTIES |-> Len(testSet.mazes[d])], DIFFICULTIES))
  /\ [][(pc = "generate" /\ mazeAt' = mazeAt + 1 /\ difficultyMazes' = difficultyMazes) =>
          (testSet' = testSet /\ totalGenerated' = totalGenerated)]_vars
====
